---- MODULE Spec2Model ----
(***************************************************************************)
(* Model of the Nika referral system: the commission calculator           *)
(* (src/utils/commissionCalculator.ts), the referral-chain walk of the    *)
(* database service (src/services/database.ts), the trade webhook and     *)
(* registration of the referral service (services/referralService.ts) and *)
(* the routes with their middleware (routes/referral.ts, middleware).     *)
(*                                                                         *)
(* Decimal.js values are exact base-10 numbers; they are represented as   *)
(* integers in fixed units, chosen so that every product below is exact:  *)
(*   fee rates            1e-3        (0.01  -> 10)                        *)
(*   feeDiscountRate      1e-1        (0.10  -> 1)                         *)
(*   trade value, volume  1 USDC                                           *)
(*   fee amounts          1e-3 USDC   (trade value x fee rate)             *)
(*   commission rates     1e-3        (0.30  -> 300)                       *)
(*   commission amounts   1e-6 USDC   (fee amount x commission rate)       *)
(* A Date of the earnings breakdown is a number of half days.              *)
(*                                                                         *)
(* Specifications, one per part of the program:                            *)
(*   SpecFee, SpecDist, SpecValidate, SpecOptimalTier, SpecEarnings: one   *)
(*     call of a static method of CommissionCalculator on bounded inputs;  *)
(*   SpecCalculators: a call of any of the four calculations;              *)
(*   SpecClaim: DatabaseService.createClaim over a commission table;       *)
(*   SpecRegister: registrations only;                                     *)
(*   Spec: registrations and trade webhooks, the webhook in two steps      *)
(*     (user lookup and checks, then the transaction).                     *)
(*   SpecConfigured: the distribution over the configured structures;      *)
(*   SpecValidated: a chain is validated, then its trade is distributed;   *)
(*   SpecWebhook: trade webhooks one at a time, with failing statements;   *)
(*   SpecLifecycle: trades, overlapping createClaim calls and claim status *)
(*     updates;                                                            *)
(*   SpecQuery: DatabaseService.getUserCommissions over a table;           *)
(*   SpecGenerate: the route POST /generate, every kind of request;        *)
(*   SpecApi: POST /generate and POST /claim behind the rate limiter,      *)
(*     with a clock in steps of 30 s.                                      *)
(***************************************************************************)
EXTENDS Integers, Sequences, FiniteSets, Bags, TLC

VARIABLES
    \* one call of calculateEffectiveFeeRate: inputs and result
    feePc, feeUser, feeTradeValue, feeTiers, feeResult,
    \* one call of calculateCommissionDistribution: inputs and result
    distPc, distNetFee, distChain, distResult,
    \* the database tables, the bag of trade webhooks between their user
    \* lookup and their transaction, and the last response of the service
    users, trades, commissions, claims, inflight, response,
    \* one call of validateReferralChain: inputs and result
    valPc, valUserId, valChain, valResult,
    \* one call of calculateOptimalFeeTier: inputs and result
    optPc, optVolume, optTiers, optResult,
    \* one call of calculateEarningsBreakdown: inputs and result
    earnPc, earnCommissions, earnStartDate, earnEndDate, earnResult,
    \* the HTTP layer: the rate limiter's map, the clock, the number of
    \* requests each route has admitted per key, and the last HTTP response
    userRateLimits, now, admitted, apiResponse,
    \* one call of getUserCommissions: inputs and result
    qryPc, qryCommissions, qryUserId, qryStartDate, qryEndDate, qryResult

feeVars == <<feePc, feeUser, feeTradeValue, feeTiers, feeResult>>

distVars == <<distPc, distNetFee, distChain, distResult>>

sysVars == <<users, trades, commissions, claims, inflight, response>>

valVars == <<valPc, valUserId, valChain, valResult>>

optVars == <<optPc, optVolume, optTiers, optResult>>

earnVars == <<earnPc, earnCommissions, earnStartDate, earnEndDate, earnResult>>

apiVars == <<userRateLimits, now, admitted, apiResponse>>

qryVars == <<qryPc, qryCommissions, qryUserId, qryStartDate, qryEndDate, qryResult>>

vars == <<feeVars, distVars, sysVars, valVars, optVars, earnVars, apiVars, qryVars>>

----------------------------------------------------------------------------
(* Configuration (config/index.ts)                                         *)

\* referralConfig.baseFeeRate = 0.01
baseFeeRate == 10

\* Decimal(1) in the unit of feeDiscountRate
DiscountOne == 10

\* customFeeRate?: Decimal is undefined
NoRate == -1

\* referralConfig.rates.level1 / level2 / level3 = 0.30, 0.03, 0.02
level1 == 300

level2 == 30

level3 == 20

\* businessRules.maxReferralDepth
maxReferralDepth == 3

\* businessRules.minimumCommissionAmount = 0.01
minimumCommissionAmount == 10000

\* commissionId: '' -- no commission row yet
EmptyId == 0

\* referralConfig.defaultFeeDiscount = 0.10
defaultFeeDiscount == 1

\* businessRules.minimumTradeVolume
minimumTradeVolume == 10

\* referrerId / claimId is null
NoUser == 0

\* no referralCode in the request
NoCode == 0

\* a referralCode that fails ReferralCodeGenerator.isValid
MalformedCode == -2

\* bound: longest tier catalog drawn
MaxTiers == 2

\* bound: number of user rows
MaxUsers == 4

\* bound: number of trade webhooks received
MaxTrades == 2

\* bound: longest referral chain handed to the distributor
MaxChain == 4

\* referralService.ts line 91: maxAttempts of the code generation loop
maxAttempts == 10

\* routes/referral.ts: rateLimitByUser(5, 60 * 1000) on POST /generate
generateMaxRequests == 5

\* rateLimitByUser(10, 60 * 1000) on POST /claim
claimMaxRequests == 10

\* windowMs = 60 * 1000 on both routes; the clock counts steps of 30 s
minuteWindow == 2

\* a userId text that is not a UUID
MalformedId == -3

\* businessRules.minimumClaimAmount = 1 USDC, in 1e-6 USDC
minimumClaimAmount == 1000000

\* bound: requests the rate limiter admits in a run
MaxRequests == 6

\* bound: last clock value
MaxTime == 3

\* bound: number of users in a run that only registers
MaxAccounts == 5

\* bound: commissions handed to the earnings breakdown
MaxEarnings == 2

\* bound: commission rows in the table when claims are created
MaxCommissions == 2

\* bound: number of createClaim calls
MaxClaims == 2

----------------------------------------------------------------------------
(* Fee-rate resolver                                                       *)

Min(a, b) == IF a <= b THEN a ELSE b

\* availableFeeTiers.filter((tier) => tier.isActive)
ActiveTiers(tiers) == SelectSeq(tiers, LAMBDA t : t.isActive)

\* Array.prototype.sort with (a, b) => b.priority - a.priority: a stable
\* sort, higher priority first, equal priorities keep their order.
RECURSIVE SortByPriorityDesc(_)
SortByPriorityDesc(s) ==
    IF s = <<>> THEN <<>>
    ELSE LET sorted == SortByPriorityDesc(SubSeq(s, 1, Len(s) - 1))
             t == s[Len(s)]
             k == Cardinality({i \in 1..Len(sorted) : sorted[i].priority >= t.priority})
         IN  SubSeq(sorted, 1, k) \o <<t>> \o SubSeq(sorted, k + 1, Len(sorted))

applicableTiers(availableFeeTiers) == SortByPriorityDesc(ActiveTiers(availableFeeTiers))

argumentAfterFilterSort_InPlace(availableFeeTiers) == SortByPriorityDesc(availableFeeTiers)

\* availableFeeTiers.filter(...).sort(...): filter returns a new array and
\* sort orders that array in place, so the caller's array keeps its rows and
\* their order
argumentAfterFilterSort(availableFeeTiers) == availableFeeTiers

\* the for-loop with break: index of the first tier the volume reaches, 0 if none
bestTierIndex(volume, sortedTiers) ==
    LET qualifying == {i \in 1..Len(sortedTiers) : volume >= sortedTiers[i].minimumVolume}
    IN  IF qualifying = {} THEN 0
        ELSE CHOOSE i \in qualifying : \A j \in qualifying : i <= j

discountedBaseRate_Surcharge(user) == (baseFeeRate * (DiscountOne + user.feeDiscountRate)) \div DiscountOne

\* line 78: baseFeeRate.mul(new Decimal(1).sub(user.feeDiscountRate))
discountedBaseRate(user) == (baseFeeRate * (DiscountOne - user.feeDiscountRate)) \div DiscountOne

\* line 37: user.isTeamMember || user.isWaivedFees
isWaived_TeamOnly(user) == user.isTeamMember

isWaived(user) == user.isTeamMember \/ user.isWaivedFees

\* line 50: if (user.customFeeRate) -- a Decimal object is truthy whatever
\* its value, so the test is "customFeeRate is set"
hasCustomFeeRate(user) == user.customFeeRate # NoRate

\* lines 38-46
WaivedResult ==
    [originalFeeRate |-> 0, appliedFeeRate |-> 0, feeAmount |-> 0,
     netFeeAmount |-> 0, rebateAmount |-> 0, discountApplied |-> FALSE,
     tierUsed |-> "WAIVED"]

CustomResult_Discounted(user, tradeVolume) ==
    [originalFeeRate |-> user.customFeeRate,
     appliedFeeRate |-> user.customFeeRate,
     feeAmount |-> tradeVolume * user.customFeeRate,
     netFeeAmount |-> (tradeVolume * user.customFeeRate * (DiscountOne - user.feeDiscountRate)) \div DiscountOne,
     rebateAmount |-> 0, discountApplied |-> FALSE, tierUsed |-> "CUSTOM"]

\* lines 51-60
CustomResult(user, tradeVolume) ==
    [originalFeeRate |-> user.customFeeRate,
     appliedFeeRate |-> user.customFeeRate,
     feeAmount |-> tradeVolume * user.customFeeRate,
     netFeeAmount |-> tradeVolume * user.customFeeRate,
     rebateAmount |-> 0, discountApplied |-> FALSE, tierUsed |-> "CUSTOM"]

tierIsBetter_OrEqual(tier, user) == tier.feeRate <= discountedBaseRate(user)

\* line 85: bestTier.feeRate.lt(discountedBaseRate)
tierIsBetter(tier, user) == tier.feeRate < discountedBaseRate(user)

grossFeeAmount_Applied(tradeVolume, effectiveRate) == tradeVolume * effectiveRate

\* line 96: tradeVolume.mul(baseFeeRate) -- always the base rate
grossFeeAmount(tradeVolume, effectiveRate) == tradeVolume * baseFeeRate

\* lines 63-108
TierOrBaseResult(user, tradeVolume, availableFeeTiers) ==
    LET sortedTiers == applicableTiers(availableFeeTiers)
        b == bestTierIndex(user.totalTradeVolume, sortedTiers)
        useTier == b # 0 /\ tierIsBetter(sortedTiers[b], user)
        effectiveRate == IF useTier THEN sortedTiers[b].feeRate
                         ELSE discountedBaseRate(user)
        feeAmount == grossFeeAmount(tradeVolume, effectiveRate)
        netFeeAmount == tradeVolume * effectiveRate
    IN  [originalFeeRate |-> baseFeeRate,
         appliedFeeRate |-> effectiveRate,
         feeAmount |-> feeAmount,
         netFeeAmount |-> netFeeAmount,
         rebateAmount |-> feeAmount - netFeeAmount,
         discountApplied |-> IF useTier THEN FALSE ELSE user.feeDiscountRate > 0,
         tierUsed |-> IF useTier THEN sortedTiers[b].name ELSE "BASE"]

calculateEffectiveFeeRate(user, tradeVolume, availableFeeTiers) ==
    IF isWaived(user) THEN WaivedResult
    ELSE IF hasCustomFeeRate(user) THEN CustomResult(user, tradeVolume)
    ELSE TierOrBaseResult(user, tradeVolume, availableFeeTiers)

----------------------------------------------------------------------------
(* Commission distributor                                                  *)

getCustomCommissionRate_Level1Everywhere(customStructure, level) ==
    CASE level \in {1, 2, 3} ->
            IF customStructure.level1Rate # NoRate THEN customStructure.level1Rate ELSE level1
      [] OTHER -> 0

\* lines 189-203: customStructure.level{N}Rate ?? referralConfig.rates.level{N}
getCustomCommissionRate(customStructure, level) ==
    CASE level = 1 ->
            IF customStructure.level1Rate # NoRate THEN customStructure.level1Rate ELSE level1
      [] level = 2 ->
            IF customStructure.level2Rate # NoRate THEN customStructure.level2Rate ELSE level2
      [] level = 3 ->
            IF customStructure.level3Rate # NoRate THEN customStructure.level3Rate ELSE level3
      [] OTHER -> 0

\* lines 167-184; customCommissionStructure is <<>> when undefined and
\* <<structure>> when present
getCommissionRate(referrer, level) ==
    IF referrer.customCommissionStructure # <<>>
    THEN getCustomCommissionRate(referrer.customCommissionStructure[1], level)
    ELSE CASE level = 1 -> level1
           [] level = 2 -> level2
           [] level = 3 -> level3
           [] OTHER -> 0

meetsMinimum_Strict(commissionAmount) == commissionAmount > minimumCommissionAmount

\* line 147: commissionAmount.gte(businessRules.minimumCommissionAmount)
meetsMinimum(commissionAmount) == commissionAmount >= minimumCommissionAmount

pushDistribution_Compacted(distributions, level, referrer, commissionAmount, commissionRate) ==
    Append(distributions,
           [level |-> Len(distributions) + 1, earnerId |-> referrer.id,
            amount |-> commissionAmount, rate |-> commissionRate,
            commissionId |-> EmptyId])

pushDistribution_Unshift(distributions, level, referrer, commissionAmount, commissionRate) ==
    << [level |-> level, earnerId |-> referrer.id,
        amount |-> commissionAmount, rate |-> commissionRate,
        commissionId |-> EmptyId] >> \o distributions

\* lines 148-155: distributions.push({level, earnerId, amount, rate, commissionId: ''})
pushDistribution(distributions, level, referrer, commissionAmount, commissionRate) ==
    Append(distributions,
           [level |-> level, earnerId |-> referrer.id,
            amount |-> commissionAmount, rate |-> commissionRate,
            commissionId |-> EmptyId])

\* lines 131-157: the distributions after the loop iterations 1..level
RECURSIVE distributionsUpTo(_, _, _)
distributionsUpTo(netFeeAmount, referralChain, level) ==
    IF level = 0 THEN <<>>
    ELSE LET distributions == distributionsUpTo(netFeeAmount, referralChain, level - 1)
             referrer == referralChain[level]
             commissionRate == getCommissionRate(referrer, level)
             commissionAmount == netFeeAmount * commissionRate
         IN  IF referrer.isTeamMember THEN distributions
             ELSE IF meetsMinimum(commissionAmount)
                  THEN pushDistribution(distributions, level, referrer,
                                        commissionAmount, commissionRate)
                  ELSE distributions

\* lines 117-160
calculateCommissionDistribution(referralChain, netFeeAmount) ==
    IF netFeeAmount <= 0 THEN <<>>
    ELSE distributionsUpTo(netFeeAmount, referralChain,
                           Min(Len(referralChain), maxReferralDepth))

----------------------------------------------------------------------------
(* Referral-chain validator (commissionCalculator.ts lines 210-231)        *)

containsUser_Never(userId, referralChain) == FALSE

\* referralChain.some((user) => user.id === userId)
containsUser(userId, referralChain) ==
    \E i \in DOMAIN referralChain : referralChain[i].id = userId

\* the loop over the chain with the Set userIds, from position k on
RECURSIVE hasCircularReference(_, _, _)
hasCircularReference(referralChain, k, userIds) ==
    IF k > Len(referralChain) THEN FALSE
    ELSE IF referralChain[k].id \in userIds THEN TRUE
    ELSE hasCircularReference(referralChain, k + 1, userIds \cup {referralChain[k].id})

exceedsMaxDepth_AtLimit(referralChain) == Len(referralChain) >= maxReferralDepth

\* referralChain.length > businessRules.maxReferralDepth
exceedsMaxDepth(referralChain) == Len(referralChain) > maxReferralDepth

validateReferralChain(userId, referralChain) ==
    IF containsUser(userId, referralChain) THEN FALSE
    ELSE IF hasCircularReference(referralChain, 1, {}) THEN FALSE
    ELSE IF exceedsMaxDepth(referralChain) THEN FALSE
    ELSE TRUE

----------------------------------------------------------------------------
(* Tier selector (commissionCalculator.ts lines 274-290)                   *)

\* what the function returns when activeTiers[0] does not exist
undefinedTier ==
    [name |-> "undefined", minimumVolume |-> 0, feeRate |-> 0, priority |-> 0, isActive |-> FALSE]

qualifiesForTier_Strict(userVolume, tier) == userVolume > tier.minimumVolume

\* userVolume.gte(tier.minimumVolume)
qualifiesForTier(userVolume, tier) == userVolume >= tier.minimumVolume

fallbackTier_First(activeTiers) ==
    IF activeTiers # <<>> THEN activeTiers[1] ELSE undefinedTier

\* activeTiers.find((tier) => tier.name === 'BASE') || activeTiers[0]
fallbackTier(activeTiers) ==
    LET base == {i \in DOMAIN activeTiers : activeTiers[i].name = "BASE"}
    IN  IF base # {} THEN activeTiers[CHOOSE i \in base : \A j \in base : i <= j]
        ELSE IF activeTiers # <<>> THEN activeTiers[1]
        ELSE undefinedTier

calculateOptimalFeeTier(userVolume, availableFeeTiers) ==
    LET activeTiers == SortByPriorityDesc(ActiveTiers(availableFeeTiers))
        qualifying == {i \in DOMAIN activeTiers : qualifiesForTier(userVolume, activeTiers[i])}
    IN  IF qualifying # {}
        THEN activeTiers[CHOOSE i \in qualifying : \A j \in qualifying : i <= j]
        ELSE fallbackTier(activeTiers)

----------------------------------------------------------------------------
(* Earnings breakdown (commissionCalculator.ts lines 297-374)              *)
(* A Date is a number of half days since the epoch.                        *)

\* an optional Date parameter that was not passed
NoDate == -1

\* half days per calendar day
DayLength == 2

isBeforeStart_OrEqual(commissionDate, startDate) ==
    startDate # NoDate /\ commissionDate <= startDate

\* startDate && commissionDate < startDate
isBeforeStart(commissionDate, startDate) ==
    startDate # NoDate /\ commissionDate < startDate

\* endDate && commissionDate > endDate
isAfterEnd(commissionDate, endDate) ==
    endDate # NoDate /\ commissionDate > endDate

\* lines 310-318
filterByDateRange(commissionList, startDate, endDate) ==
    IF startDate # NoDate \/ endDate # NoDate
    THEN SelectSeq(commissionList,
                   LAMBDA c : /\ ~isBeforeStart(c.createdAt, startDate)
                              /\ ~isAfterEnd(c.createdAt, endDate))
    ELSE commissionList

\* reduce((sum, commission) => sum.add(commission.amount), new Decimal(0))
RECURSIVE sumAmounts(_)
sumAmounts(cs) ==
    IF cs = <<>> THEN 0 ELSE sumAmounts(SubSeq(cs, 1, Len(cs) - 1)) + cs[Len(cs)].amount

isClaimed_NotUnclaimed(commission) == commission.status # "UNCLAIMED"

\* commission.status === 'CLAIMED'
isClaimed(commission) == commission.status = "CLAIMED"

\* lines 331-337
earningsByLevelOf(filtered) ==
    [level \in 1..3 |->
        sumAmounts(SelectSeq(filtered, LAMBDA c : c.commissionLevel = level))]

\* lines 339-348: one entry per token type that occurs
earningsByTokenOf(filtered) ==
    [token \in {filtered[k].tokenType : k \in DOMAIN filtered} |->
        sumAmounts(SelectSeq(filtered, LAMBDA c : c.tokenType = token))]

dateKey_Timestamp(createdAt) == createdAt

\* createdAt.toISOString().split('T')[0]: the calendar day
dateKey(createdAt) == createdAt \div DayLength

\* earningsByPeriod.sort by date: the entries of the given days, ascending
RECURSIVE sortedPeriods(_, _)
sortedPeriods(filtered, days) ==
    IF days = {} THEN <<>>
    ELSE LET first == CHOOSE d \in days : \A e \in days : d <= e
         IN  << [date |-> first,
                 amount |-> sumAmounts(SelectSeq(filtered,
                                LAMBDA c : dateKey(c.createdAt) = first))] >>
             \o sortedPeriods(filtered, days \ {first})

\* lines 350-364
earningsByPeriodOf(filtered) ==
    sortedPeriods(filtered, {dateKey(filtered[k].createdAt) : k \in DOMAIN filtered})

calculateEarningsBreakdown(commissionList, startDate, endDate) ==
    LET filteredCommissions == filterByDateRange(commissionList, startDate, endDate)
        totalEarnings == sumAmounts(filteredCommissions)
        claimedEarnings == sumAmounts(SelectSeq(filteredCommissions, isClaimed))
    IN  [totalEarnings |-> totalEarnings,
         claimedEarnings |-> claimedEarnings,
         unclaimedEarnings |-> totalEarnings - claimedEarnings,
         earningsByLevel |-> earningsByLevelOf(filteredCommissions),
         earningsByToken |-> earningsByTokenOf(filteredCommissions),
         earningsByPeriod |-> earningsByPeriodOf(filteredCommissions)]

----------------------------------------------------------------------------
(* Database service and referral service                                   *)

\* database.ts lines 161-192.  The loop pushes the referrer of currentUserId
\* and then continues from the referrer's own referrerId.
RECURSIVE getReferralChainFrom(_, _, _)
getReferralChainFrom(us, currentUserId, depth) ==
    IF depth >= maxReferralDepth \/ currentUserId = NoUser THEN <<>>
    ELSE LET user == us[currentUserId]
         IN  IF user.referrerId = NoUser THEN <<>>
             ELSE LET referrer == us[user.referrerId]
                  IN  <<referrer>> \o getReferralChainFrom(us, referrer.referrerId, depth + 1)

getReferralChain(us, userId) == getReferralChainFrom(us, userId, 0)

\* findUserByReferralCode: the id of the user holding the code, NoUser if none
findUserByReferralCode(us, referralCode) ==
    IF \E i \in DOMAIN us : us[i].referralCode = referralCode
    THEN CHOOSE i \in DOMAIN us : us[i].referralCode = referralCode
    ELSE NoUser

\* prisma.user.create in createUser plus updateUser(referralCode): the row of
\* a newly registered user; the generated code is taken to be unused
NewUser(id, referrerId, feeDiscountRate) ==
    [id |-> id, referrerId |-> referrerId, referralCode |-> id,
     isTeamMember |-> FALSE, isWaivedFees |-> FALSE, customFeeRate |-> NoRate,
     feeDiscountRate |-> feeDiscountRate, customCommissionStructure |-> <<>>,
     totalTradeVolume |-> 0, totalFeesPaid |-> 0]

\* referralService.ts lines 122-219.  form: outcome of the email, username
\* and password validation; emailOwner: the user already registered with the
\* request's email, NoUser if the email is new.
registerWithReferral(us, form, emailOwner, referralCode) ==
    LET referrer == findUserByReferralCode(us, referralCode)
        newId == Len(us) + 1
        reject(code) == [status |-> code, users |-> us]
    IN  IF form = "bad_email" THEN reject("INVALID_EMAIL")
        ELSE IF form = "bad_username" THEN reject("INVALID_USERNAME")
        ELSE IF form = "bad_password" THEN reject("INVALID_PASSWORD")
        ELSE IF referralCode # NoCode /\ referralCode = MalformedCode
             THEN reject("INVALID_REFERRAL_CODE")
        ELSE IF referralCode # NoCode /\ referrer = NoUser
             THEN reject("REFERRAL_CODE_NOT_FOUND")
        ELSE IF referralCode # NoCode /\ emailOwner # NoUser /\ emailOwner = referrer
             THEN reject("SELF_REFERRAL_NOT_ALLOWED")
        ELSE IF referralCode # NoCode
                /\ Len(getReferralChain(us, referrer)) >= maxReferralDepth
             THEN reject("MAX_REFERRAL_DEPTH_EXCEEDED")
        ELSE IF emailOwner # NoUser THEN reject("EMAIL_EXISTS")
        ELSE [status |-> "REGISTERED",
              users |-> Append(us, NewUser(newId,
                                   IF referralCode # NoCode THEN referrer ELSE NoUser,
                                   IF referralCode # NoCode THEN defaultFeeDiscount ELSE 0))]

\* helpers.ts lines 137-150, DecimalUtils.fromString: new Decimal(value)
\* throws on text that is no number, and a non-finite value is rejected.
\* Request texts are sequences of characters.
DigitValue(c) ==
    CASE c = "0" -> 0 [] c = "1" -> 1 [] c = "2" -> 2 [] c = "3" -> 3 [] c = "4" -> 4
      [] c = "5" -> 5 [] c = "6" -> 6 [] c = "7" -> 7 [] c = "8" -> 8 [] c = "9" -> 9
      [] OTHER -> -1

RECURSIVE DigitsValue(_)
DigitsValue(text) ==
    IF text = <<>> THEN 0
    ELSE 10 * DigitsValue(SubSeq(text, 1, Len(text) - 1)) + DigitValue(text[Len(text)])

InfinityText == <<"I", "n", "f", "i", "n", "i", "t", "y">>

fromString(text) ==
    IF text = InfinityText THEN [ok |-> FALSE, value |-> 0]
    ELSE IF text # <<>> /\ \A i \in DOMAIN text : DigitValue(text[i]) >= 0
         THEN [ok |-> TRUE, value |-> DigitsValue(text)]
         ELSE [ok |-> FALSE, value |-> 0]

\* config lines 200-236 as seeded, every tier active
feeTierDefinitions ==
    << [name |-> "BASE",  minimumVolume |-> 0,       feeRate |-> 10, priority |-> 0, isActive |-> TRUE],
       [name |-> "TIER1", minimumVolume |-> 10000,   feeRate |-> 8,  priority |-> 1, isActive |-> TRUE],
       [name |-> "TIER2", minimumVolume |-> 50000,   feeRate |-> 6,  priority |-> 2, isActive |-> TRUE],
       [name |-> "TIER3", minimumVolume |-> 200000,  feeRate |-> 5,  priority |-> 3, isActive |-> TRUE],
       [name |-> "VIP",   minimumVolume |-> 1000000, feeRate |-> 3,  priority |-> 4, isActive |-> TRUE] >>

\* database.ts lines 451-458, loaded once into ReferralService.feeTiers
getFeeTiers == SortByPriorityDesc(ActiveTiers(feeTierDefinitions))

\* referralService.ts lines 391-409: the checks before the transaction.
\* The minimum is compared with the trade's volume, not with its value.
tradeWebhookCheck(us, userId, volume, price) ==
    IF userId \notin DOMAIN us THEN "USER_NOT_FOUND"
    ELSE IF ~fromString(volume).ok \/ ~fromString(price).ok THEN "INVALID_DECIMAL"
    ELSE IF fromString(volume).value < minimumTradeVolume THEN "MINIMUM_TRADE_VOLUME_NOT_MET"
    ELSE "OK"

\* lines 452-463 and 468-470: one commission row per distribution
commissionRows(dists, userId, tradeId, feeCalculation, firstId) ==
    [k \in 1..Len(dists) |->
        [id |-> firstId + k - 1,
         amount |-> dists[k].amount,
         tokenType |-> "USDC",
         commissionLevel |-> dists[k].level,
         rate |-> dists[k].rate,
         earnerId |-> dists[k].earnerId,
         sourceUserId |-> userId,
         tradeId |-> tradeId,
         originalFeeAmount |-> feeCalculation.feeAmount,
         status |-> "UNCLAIMED",
         claimId |-> NoUser]]

withCommissionIds_Unfilled(dists, rows) == dists

\* lines 474-476: distribution.commissionId = createdCommissions[index].id
withCommissionIds(dists, rows) ==
    [k \in 1..Len(dists) |-> [dists[k] EXCEPT !.commissionId = rows[k].id]]

\* database.ts lines 398-400, tx.claim.create: the claim row gets the next id
claimCreate(cl, claimData) ==
    Append(cl, [id |-> Len(cl) + 1, userId |-> claimData.userId,
                tokenType |-> claimData.tokenType, status |-> claimData.status])

commissionUpdateMany_AnyStatus(cs, claimData, claimId) ==
    [k \in DOMAIN cs |->
        IF /\ cs[k].earnerId = claimData.userId
           /\ cs[k].tokenType = claimData.tokenType
        THEN [cs[k] EXCEPT !.status = "CLAIMED", !.claimId = claimId]
        ELSE cs[k]]

\* lines 403-414, tx.commission.updateMany
commissionUpdateMany(cs, claimData, claimId) ==
    [k \in DOMAIN cs |->
        IF /\ cs[k].earnerId = claimData.userId
           /\ cs[k].status = "UNCLAIMED"
           /\ cs[k].tokenType = claimData.tokenType
        THEN [cs[k] EXCEPT !.status = "CLAIMED", !.claimId = claimId]
        ELSE cs[k]]

transaction_NoRollback(before, written, failed) == written

\* prisma.$transaction: the writes of a callback that throws are rolled back
transaction(before, written, failed) == IF failed THEN before ELSE written

\* lines 395-418.  failAt: the statement that throws, "none" if none does
createClaim(cs, cl, claimData, failAt) ==
    LET created == IF failAt = "create" THEN cl ELSE claimCreate(cl, claimData)
        updated == IF failAt = "none"
                   THEN commissionUpdateMany(cs, claimData, Len(cl) + 1)
                   ELSE cs
    IN  transaction([claims |-> cl, commissions |-> cs],
                    [claims |-> created, commissions |-> updated],
                    failAt # "none")

NoResponse == [op |-> "none", status |-> "NONE", tradeId |-> 0, commissionsDistributed |-> <<>>]

\* referralService.ts lines 411-497, the callback of executeTransaction.
\* req: the request with the user row read before the transaction; failAt:
\* the statement of the callback that throws, "none" if none does.
tradeTransaction(us, ts, cs, req, failAt) ==
    LET user == req.user
        tradeValue == req.tradeVolume * req.tradePrice
        feeCalculation == calculateEffectiveFeeRate(user, tradeValue, getFeeTiers)
        tradeId == Len(ts) + 1
        trade == [id |-> tradeId, userId |-> req.userId,
                  volume |-> req.tradeVolume, price |-> req.tradePrice,
                  feeRate |-> feeCalculation.appliedFeeRate,
                  feeAmount |-> feeCalculation.feeAmount,
                  netFeeAmount |-> feeCalculation.netFeeAmount,
                  rebateAmount |-> feeCalculation.rebateAmount,
                  status |-> "COMPLETED"]
        referralChain == getReferralChain(us, req.userId)
        dists == calculateCommissionDistribution(referralChain, feeCalculation.netFeeAmount)
        rows == commissionRows(dists, req.userId, tradeId, feeCalculation, Len(cs) + 1)
        \* commission.create is called only when there is a distribution
        thrown == \/ failAt \in {"trade.create", "user.update"}
                  \/ failAt = "commission.create" /\ Len(dists) > 0
        tradesWritten == IF failAt = "trade.create" THEN ts ELSE Append(ts, trade)
        commissionsWritten ==
            IF failAt \in {"trade.create", "commission.create"} THEN cs ELSE cs \o rows
        usersWritten ==
            IF thrown THEN us
            ELSE [us EXCEPT
                    ![req.userId].totalTradeVolume = user.totalTradeVolume + tradeValue,
                    ![req.userId].totalFeesPaid =
                        user.totalFeesPaid + feeCalculation.netFeeAmount]
        db == transaction([users |-> us, trades |-> ts, commissions |-> cs],
                          [users |-> usersWritten, trades |-> tradesWritten,
                           commissions |-> commissionsWritten],
                          thrown)
    IN  [users |-> db.users, trades |-> db.trades, commissions |-> db.commissions,
         response |-> IF thrown
                      THEN [NoResponse EXCEPT !.op = "trade", !.status = "INTERNAL_ERROR"]
                      ELSE [op |-> "trade", status |-> "SUCCESS", tradeId |-> tradeId,
                            commissionsDistributed |-> withCommissionIds(dists, rows)]]

\* referralService.ts lines 377-498, one call from its start to its end
processTradeWebhook(us, ts, cs, userId, volume, price, failAt) ==
    LET check == tradeWebhookCheck(us, userId, volume, price)
    IN  IF check # "OK"
        THEN [users |-> us, trades |-> ts, commissions |-> cs,
              response |-> [NoResponse EXCEPT !.op = "trade", !.status = check]]
        ELSE tradeTransaction(us, ts, cs,
                              [userId |-> userId, user |-> us[userId],
                               tradeVolume |-> fromString(volume).value,
                               tradePrice |-> fromString(price).value],
                              failAt)

\* database.ts lines 423-442, updateClaimStatus: only the claim row is written
updateClaimStatus(cl, claimId, status) ==
    [k \in DOMAIN cl |-> IF cl[k].id = claimId THEN [cl[k] EXCEPT !.status = status]
                          ELSE cl[k]]

\* { ...obj, ...more }: the keys of more replace those of obj
spread(obj, more) ==
    [k \in DOMAIN obj \cup DOMAIN more |-> IF k \in DOMAIN more THEN more[k] ELSE obj[k]]

\* database.ts lines 244-251: the where object of getUserCommissions;
\* ...(cond && {...}) spreads nothing when cond is missing
commissionWhere(userId, filters) ==
    LET byUser == [earnerId |-> [equals |-> userId]]
        withStart == spread(byUser, IF filters.startDate # NoDate
                                    THEN [createdAt |-> [gte |-> filters.startDate]]
                                    ELSE <<>>)
        withEnd == spread(withStart, IF filters.endDate # NoDate
                                     THEN [createdAt |-> [lte |-> filters.endDate]]
                                     ELSE <<>>)
    IN  spread(withEnd, IF filters.status # "" THEN [status |-> [equals |-> filters.status]]
                        ELSE <<>>)

\* Prisma: a row matches a condition on one column
matchesCondition(value, cond) ==
    /\ "equals" \in DOMAIN cond => value = cond.equals
    /\ "gte" \in DOMAIN cond => value >= cond.gte
    /\ "lte" \in DOMAIN cond => value <= cond.lte

\* Prisma: a row matches a where object when it matches every key of it
matchesWhere(row, where) ==
    \A k \in DOMAIN where : matchesCondition(row[k], where[k])

\* orderBy: { createdAt: 'desc' } over rows with distinct createdAt
RECURSIVE orderByCreatedAtDesc(_, _)
orderByCreatedAtDesc(cs, rowSet) ==
    IF rowSet = {} THEN <<>>
    ELSE LET latest == CHOOSE k \in rowSet :
                          \A j \in rowSet : cs[j].createdAt <= cs[k].createdAt
         IN  <<cs[latest]>> \o orderByCreatedAtDesc(cs, rowSet \ {latest})

\* database.ts lines 239-275, getUserCommissions
getUserCommissions(cs, userId, filters, pagination) ==
    LET where == commissionWhere(userId, filters)
        found == {k \in DOMAIN cs : matchesWhere(cs[k], where)}
        ordered == orderByCreatedAtDesc(cs, found)
    IN  [commissions |-> SubSeq(ordered, pagination.offset + 1,
                                Min(Len(ordered), pagination.offset + pagination.limit)),
         total |-> Cardinality(found)]

\* helpers.ts lines 41-44, ReferralCodeGenerator.generateUrl
generateUrl(code) == <<"https://app.nika.trade/signup?ref=", code>>

hasReferralCode_Never(user) == FALSE

\* referralService.ts line 84: if (user.referralCode)
hasReferralCode(user) == user.referralCode # NoCode

\* referralService.ts lines 72-117.  generated: the codes that successive
\* calls of ReferralCodeGenerator.generate() return.
generateReferralCode(us, userId, generated) ==
    LET failed(code) == [status |-> code, referralCode |-> NoCode, referralUrl |-> <<>>,
                         users |-> us]
        free == {k \in 1..maxAttempts : findUserByReferralCode(us, generated[k]) = NoUser}
        first == CHOOSE k \in free : \A j \in free : k <= j
    IN  IF userId \notin DOMAIN us THEN failed("USER_NOT_FOUND")
        ELSE IF hasReferralCode(us[userId])
             THEN [status |-> "OK", referralCode |-> us[userId].referralCode,
                   referralUrl |-> generateUrl(us[userId].referralCode), users |-> us]
        ELSE IF free = {} THEN failed("REFERRAL_CODE_GENERATION_FAILED")
        ELSE [status |-> "OK", referralCode |-> generated[first],
              referralUrl |-> generateUrl(generated[first]),
              users |-> [us EXCEPT ![userId].referralCode = generated[first]]]

----------------------------------------------------------------------------
(* HTTP layer: middleware/auth.ts, routes/referral.ts, the controller      *)

\* auth.ts lines 30-89, authenticateToken: the error it answers with, "NONE"
\* when the token verifies and req.user is set from its payload
authenticateToken(token) ==
    CASE token.kind = "none" -> "UNAUTHORIZED"
      [] token.kind = "expired" -> "TOKEN_EXPIRED"
      [] token.kind = "invalid" -> "TOKEN_INVALID"
      [] OTHER -> "NONE"

\* routes/referral.ts lines 142-153, extractUserId: the userId in the body
\* when the route's handler runs
extractUserId(bodyUserId, reqUserId) ==
    IF bodyUserId = NoUser THEN reqUserId ELSE bodyUserId

\* auth.ts lines 310-315: expired entries are deleted
cleanUp(limits, nowMs) ==
    [k \in {j \in DOMAIN limits : ~(nowMs > limits[j].resetTime)} |-> limits[k]]

\* auth.ts lines 318-325: the entry of the key, created when there is none
withEntry(limits, key, nowMs, windowMs) ==
    IF key \in DOMAIN limits /\ ~(nowMs > limits[key].resetTime) THEN limits
    ELSE [k \in DOMAIN limits \cup {key} |->
             IF k = key THEN [count |-> 0, resetTime |-> nowMs + windowMs] ELSE limits[k]]

\* auth.ts line 307: const userId = req.user?.id || req.ip || 'anonymous';
\* the route is not part of the key
limiterKey(reqUserId, route) == reqUserId

\* auth.ts lines 304-354, the middleware rateLimitByUser(maxRequests, windowMs)
rateLimitByUser(limits, key, nowMs, maxRequests, windowMs) ==
    LET entries == withEntry(cleanUp(limits, nowMs), key, nowMs, windowMs)
    IN  IF entries[key].count >= maxRequests
        THEN [admit |-> FALSE, limits |-> entries]
        ELSE [admit |-> TRUE,
              limits |-> [entries EXCEPT ![key].count = entries[key].count + 1]]

----------------------------------------------------------------------------
(* A calculator that is not part of the specification at hand stays idle   *)

NoFeeResult ==
    [originalFeeRate |-> 0, appliedFeeRate |-> 0, feeAmount |-> 0,
     netFeeAmount |-> 0, rebateAmount |-> 0, discountApplied |-> FALSE,
     tierUsed |-> "NONE"]

FeeIdle ==
    /\ feePc = "idle"
    /\ feeUser = [isTeamMember |-> FALSE, isWaivedFees |-> FALSE, customFeeRate |-> NoRate,
                  feeDiscountRate |-> 0, totalTradeVolume |-> 0]
    /\ feeTradeValue = 0
    /\ feeTiers = <<>>
    /\ feeResult = NoFeeResult

DistIdle ==
    /\ distPc = "idle"
    /\ distNetFee = 0
    /\ distChain = <<>>
    /\ distResult = <<>>


SysIdle ==
    /\ users = <<>>
    /\ trades = <<>>
    /\ commissions = <<>>
    /\ claims = <<>>
    /\ inflight = EmptyBag
    /\ response = NoResponse

ValIdle ==
    /\ valPc = "idle"
    /\ valUserId = ""
    /\ valChain = <<>>
    /\ valResult = FALSE

OptIdle ==
    /\ optPc = "idle"
    /\ optVolume = 0
    /\ optTiers = <<>>
    /\ optResult = <<>>

EarnIdle ==
    /\ earnPc = "idle"
    /\ earnCommissions = <<>>
    /\ earnStartDate = NoDate
    /\ earnEndDate = NoDate
    /\ earnResult = <<>>

NoApiResponse ==
    [route |-> "none", status |-> 0, error |-> "NONE", authUser |-> NoUser,
     servedUser |-> NoUser, referralCode |-> NoCode, referralUrl |-> <<>>]

ApiIdle ==
    /\ userRateLimits = <<>>
    /\ now = 0
    /\ admitted = <<>>
    /\ apiResponse = NoApiResponse

QryIdle ==
    /\ qryPc = "idle"
    /\ qryCommissions = <<>>
    /\ qryUserId = NoUser
    /\ qryStartDate = NoDate
    /\ qryEndDate = NoDate
    /\ qryResult = <<>>

----------------------------------------------------------------------------
(* Inputs of the fee-rate resolver                                         *)

\* FeeTier rows: the configured BASE, TIER1, VIP and a deactivated TIER2,
\* a tier whose rate equals the 10%-discounted base rate and shares TIER1's
\* priority, and a top-priority tier priced above the base rate.
TierPool ==
    { [name |-> "BASE",   minimumVolume |-> 0,       feeRate |-> 10, priority |-> 0, isActive |-> TRUE],
      [name |-> "TIER1",  minimumVolume |-> 10000,   feeRate |-> 8,  priority |-> 1, isActive |-> TRUE],
      [name |-> "TIER2",  minimumVolume |-> 50000,   feeRate |-> 6,  priority |-> 2, isActive |-> FALSE],
      [name |-> "VIP",    minimumVolume |-> 1000000, feeRate |-> 3,  priority |-> 4, isActive |-> TRUE],
      [name |-> "PROMO",  minimumVolume |-> 0,       feeRate |-> 9,  priority |-> 1, isActive |-> TRUE],
      [name |-> "LEGACY", minimumVolume |-> 0,       feeRate |-> 12, priority |-> 5, isActive |-> TRUE] }

\* tier catalogs: sequences of distinct tiers (FeeTier.name is unique)
TierCatalogs ==
    UNION { { s \in [1..n -> TierPool] : \A i, j \in 1..n : i # j => s[i] # s[j] } : n \in 0..MaxTiers }

FeeUsers ==
    [ isTeamMember : BOOLEAN, isWaivedFees : BOOLEAN,
      customFeeRate : {NoRate, 0, 5},
      feeDiscountRate : {0, 1, 2},
      totalTradeVolume : {0, 15000, 60000} ]

TradeValues == {0, 1000}

InitFee ==
    /\ feePc = "input"
    /\ feeUser \in FeeUsers
    /\ feeTradeValue \in TradeValues
    /\ feeTiers \in TierCatalogs
    /\ feeResult = NoFeeResult
    /\ DistIdle
    /\ SysIdle
    /\ ValIdle
    /\ OptIdle
    /\ EarnIdle
    /\ ApiIdle
    /\ QryIdle

\* one call of CommissionCalculator.calculateEffectiveFeeRate
CalculateFee ==
    /\ feePc = "input"
    /\ feeResult' = calculateEffectiveFeeRate(feeUser, feeTradeValue, feeTiers)
    /\ feePc' = "done"
    /\ feeTiers' = argumentAfterFilterSort(feeTiers)
    /\ UNCHANGED <<feeUser, feeTradeValue>>

NextFee == CalculateFee /\ UNCHANGED <<distVars, sysVars, valVars, optVars, earnVars, apiVars, qryVars>>

SpecFee == InitFee /\ [][NextFee]_vars

----------------------------------------------------------------------------
(* Inputs of the commission distributor                                    *)

NoStructure == <<>>

Structure(r1, r2, r3) == << [level1Rate |-> r1, level2Rate |-> r2, level3Rate |-> r3] >>

\* referrers: three plain accounts, a team member, a KOL with all three
\* rates overridden and a KOL with only level1Rate set
Referrers ==
    { [id |-> "level1", isTeamMember |-> FALSE, customCommissionStructure |-> NoStructure],
      [id |-> "level2", isTeamMember |-> FALSE, customCommissionStructure |-> NoStructure],
      [id |-> "level3", isTeamMember |-> FALSE, customCommissionStructure |-> NoStructure],
      [id |-> "team",   isTeamMember |-> TRUE,  customCommissionStructure |-> NoStructure],
      [id |-> "kol",    isTeamMember |-> FALSE, customCommissionStructure |-> Structure(500, 50, 30)],
      [id |-> "kol1",   isTeamMember |-> FALSE, customCommissionStructure |-> Structure(500, NoRate, NoRate)] }

ReferralChains == UNION { [1..n -> Referrers] : n \in 0..MaxChain }

\* net fees in 1e-3 USDC: 0, 0.033, 0.034, 0.3, 0.5 and 450
NetFees == {0, 33, 34, 300, 500, 450000}

InitDist ==
    /\ distPc = "input"
    /\ distNetFee \in NetFees
    /\ distChain \in ReferralChains
    /\ distResult = <<>>
    /\ FeeIdle
    /\ SysIdle
    /\ ValIdle
    /\ OptIdle
    /\ EarnIdle
    /\ ApiIdle
    /\ QryIdle

\* one call of CommissionCalculator.calculateCommissionDistribution
CalculateDistribution ==
    /\ distPc = "input"
    /\ distResult' = calculateCommissionDistribution(distChain, distNetFee)
    /\ distPc' = "done"
    /\ UNCHANGED <<distNetFee, distChain>>

NextDist == CalculateDistribution /\ UNCHANGED <<feeVars, sysVars, valVars, optVars, earnVars, apiVars, qryVars>>

SpecDist == InitDist /\ [][NextDist]_vars

\* config lines 239-263, customCommissionStructures
KOL_50 == Structure(500, 30, 20)

KOL_CUSTOM_HIGH == Structure(400, 50, 30)

KOL_CUSTOM_BALANCED == Structure(350, 40, 25)

\* referrers with the configured structures, a plain one and a team member
ConfiguredReferrers ==
    { [id |-> "plain", isTeamMember |-> FALSE, customCommissionStructure |-> NoStructure],
      [id |-> "team", isTeamMember |-> TRUE, customCommissionStructure |-> NoStructure],
      [id |-> "kol50", isTeamMember |-> FALSE, customCommissionStructure |-> KOL_50],
      [id |-> "kolHigh", isTeamMember |-> FALSE, customCommissionStructure |-> KOL_CUSTOM_HIGH],
      [id |-> "kolBalanced", isTeamMember |-> FALSE,
       customCommissionStructure |-> KOL_CUSTOM_BALANCED] }

InitConfigured ==
    /\ distPc = "input"
    /\ distNetFee \in NetFees
    /\ distChain \in UNION { [1..n -> ConfiguredReferrers] : n \in 0..MaxChain }
    /\ distResult = <<>>
    /\ FeeIdle
    /\ SysIdle
    /\ ValIdle
    /\ OptIdle
    /\ EarnIdle
    /\ ApiIdle
    /\ QryIdle

SpecConfigured == InitConfigured /\ [][NextDist]_vars

----------------------------------------------------------------------------
(* Inputs of the referral-chain validator                                  *)

\* the candidate is one of the referrers or an account outside every chain
CandidateIds == { r.id : r \in Referrers } \cup {"newcomer"}

InitValidate ==
    /\ valPc = "input"
    /\ valUserId \in CandidateIds
    /\ valChain \in ReferralChains
    /\ valResult = FALSE
    /\ FeeIdle
    /\ DistIdle
    /\ SysIdle
    /\ OptIdle
    /\ EarnIdle
    /\ ApiIdle
    /\ QryIdle

\* one call of CommissionCalculator.validateReferralChain
ValidateChain ==
    /\ valPc = "input"
    /\ valResult' = validateReferralChain(valUserId, valChain)
    /\ valPc' = "done"
    /\ UNCHANGED <<valUserId, valChain>>

NextValidate == ValidateChain /\ UNCHANGED <<feeVars, distVars, sysVars, optVars, earnVars, apiVars, qryVars>>

SpecValidate == InitValidate /\ [][NextValidate]_vars

\* net fees of the trades whose chain is validated first: 0.5 and 450 USDC
ValidatedNetFees == {500, 450000}

\* a trader, the trader's chain and the net fee of a trade
InitValidated ==
    /\ valPc = "input"
    /\ valUserId \in CandidateIds
    /\ valChain \in ReferralChains
    /\ valResult = FALSE
    /\ distPc = "input"
    /\ distNetFee \in ValidatedNetFees
    /\ distChain = valChain
    /\ distResult = <<>>
    /\ FeeIdle
    /\ SysIdle
    /\ OptIdle
    /\ EarnIdle
    /\ ApiIdle
    /\ QryIdle

\* the commissions of the trade are calculated once its chain was validated
DistributeValidated ==
    /\ valPc = "done"
    /\ CalculateDistribution
    /\ UNCHANGED valVars

NextValidated ==
    \/ ValidateChain /\ UNCHANGED <<feeVars, distVars, sysVars, optVars, earnVars, apiVars, qryVars>>
    \/ DistributeValidated /\ UNCHANGED <<feeVars, sysVars, optVars, earnVars, apiVars, qryVars>>

SpecValidated == InitValidated /\ [][NextValidated]_vars

----------------------------------------------------------------------------
(* Inputs of the tier selector                                             *)

\* the tiers of the fee-rate resolver and a BASE tier with a raised minimum
OptTierPool ==
    TierPool \cup
    { [name |-> "BASE", minimumVolume |-> 5000, feeRate |-> 10, priority |-> 0, isActive |-> TRUE] }

\* tier catalogs: FeeTier.name is unique
OptTierCatalogs ==
    UNION { { s \in [1..n -> OptTierPool] : \A i, j \in 1..n : i # j => s[i].name # s[j].name } :
            n \in 0..MaxTiers }

\* cumulative trade volumes around the tier minimums
UserVolumes == {0, 5000, 10000, 15000, 50000, 1000000, 1500000}

InitOptimalTier ==
    /\ optPc = "input"
    /\ optVolume \in UserVolumes
    /\ optTiers \in OptTierCatalogs
    /\ optResult = <<>>
    /\ FeeIdle
    /\ DistIdle
    /\ SysIdle
    /\ ValIdle
    /\ EarnIdle
    /\ ApiIdle
    /\ QryIdle

\* one call of CommissionCalculator.calculateOptimalFeeTier
SelectOptimalTier ==
    /\ optPc = "input"
    /\ optResult' = calculateOptimalFeeTier(optVolume, optTiers)
    /\ optPc' = "done"
    /\ optTiers' = argumentAfterFilterSort(optTiers)
    /\ UNCHANGED optVolume

NextOptimalTier ==
    SelectOptimalTier /\ UNCHANGED <<feeVars, distVars, sysVars, valVars, earnVars, apiVars, qryVars>>

SpecOptimalTier == InitOptimalTier /\ [][NextOptimalTier]_vars

----------------------------------------------------------------------------
(* Inputs of the earnings breakdown                                        *)

\* commissions of every status in two tokens, created on three calendar
\* days (half days 1 | 2, 3 | 4, 5); amounts in 1e-6 USDC
EarnedCommissions ==
    { [amount |-> 1,  status |-> "UNCLAIMED",  commissionLevel |-> 1, tokenType |-> "USDC", createdAt |-> 2],
      [amount |-> 2,  status |-> "CLAIMED",    commissionLevel |-> 1, tokenType |-> "USDC", createdAt |-> 3],
      [amount |-> 4,  status |-> "PROCESSING", commissionLevel |-> 2, tokenType |-> "SOL",  createdAt |-> 3],
      [amount |-> 8,  status |-> "FAILED",     commissionLevel |-> 3, tokenType |-> "USDC", createdAt |-> 4],
      [amount |-> 16, status |-> "CLAIMED",    commissionLevel |-> 2, tokenType |-> "SOL",  createdAt |-> 5],
      [amount |-> 32, status |-> "UNCLAIMED",  commissionLevel |-> 3, tokenType |-> "USDC", createdAt |-> 1] }

\* commission lists: distinct rows in any order
CommissionLists ==
    UNION { { s \in [1..n -> EarnedCommissions] : \A i, j \in 1..n : i # j => s[i] # s[j] } :
            n \in 0..MaxEarnings }

RangeDates == {NoDate, 2, 3, 4}

InitEarnings ==
    /\ earnPc = "input"
    /\ earnCommissions \in CommissionLists
    /\ earnStartDate \in RangeDates
    /\ earnEndDate \in RangeDates
    /\ earnResult = <<>>
    /\ FeeIdle
    /\ DistIdle
    /\ SysIdle
    /\ ValIdle
    /\ OptIdle
    /\ ApiIdle
    /\ QryIdle

\* one call of CommissionCalculator.calculateEarningsBreakdown
CalculateEarnings ==
    /\ earnPc = "input"
    /\ earnResult' = calculateEarningsBreakdown(earnCommissions, earnStartDate, earnEndDate)
    /\ earnPc' = "done"
    /\ UNCHANGED <<earnCommissions, earnStartDate, earnEndDate>>

NextEarnings == CalculateEarnings /\ UNCHANGED <<feeVars, distVars, sysVars, valVars, optVars, apiVars, qryVars>>

SpecEarnings == InitEarnings /\ [][NextEarnings]_vars

----------------------------------------------------------------------------
(* The four calculations side by side: a run calls one of them             *)

InitCalculators == InitFee \/ InitDist \/ InitOptimalTier \/ InitEarnings

NextCalculators == NextFee \/ NextDist \/ NextOptimalTier \/ NextEarnings

SpecCalculators == InitCalculators /\ [][NextCalculators]_vars

----------------------------------------------------------------------------
(* The service: registrations and trade webhooks over the database         *)

\* the first user row is seeded (scripts/seed): a plain account, a team
\* member or a KOL with the KOL_50 structure
SeedUsers ==
    { [NewUser(1, NoUser, 0) EXCEPT !.isTeamMember = t, !.customCommissionStructure = c] :
        t \in {FALSE}, c \in {NoStructure, Structure(500, 30, 20)} }
    \cup { [NewUser(1, NoUser, 0) EXCEPT !.isTeamMember = TRUE] }

Forms == {"ok", "bad_email", "bad_username", "bad_password"}

VolumeTexts == { <<"1">>, <<"1", "0">>, <<"a", "b", "c">> }

PriceTexts == { <<"5", "0", "0", "0">>, InfinityText }

Init ==
    /\ users \in { <<u>> : u \in SeedUsers }
    /\ trades = <<>>
    /\ commissions = <<>>
    /\ claims = <<>>
    /\ inflight = EmptyBag
    /\ response = NoResponse
    /\ FeeIdle
    /\ DistIdle
    /\ ValIdle
    /\ OptIdle
    /\ EarnIdle
    /\ ApiIdle
    /\ QryIdle

\* ReferralService.registerWithReferral, while the user table holds fewer
\* than limit rows
Register(limit) ==
    /\ Len(users) < limit
    /\ \E form \in Forms, emailOwner \in 0..Len(users),
          referralCode \in {NoCode, MalformedCode} \cup 1..limit :
          \* a request whose form is rejected is not read any further
          /\ form # "ok" => (emailOwner = NoUser /\ referralCode = NoCode)
          /\ LET r == registerWithReferral(users, form, emailOwner, referralCode)
             IN  /\ users' = r.users
                 /\ response' = [NoResponse EXCEPT !.op = "register", !.status = r.status]
    /\ UNCHANGED <<trades, commissions, claims, inflight>>

RegisterWithReferral == Register(MaxUsers)

\* ReferralService.processTradeWebhook up to the start of its transaction:
\* the user row is read here and kept by the request
TradeWebhookReceive ==
    /\ Len(trades) + BagCardinality(inflight) < MaxTrades
    /\ \E userId \in 1..(Len(users) + 1), volume \in VolumeTexts, price \in PriceTexts :
          \* the texts of a request for an unknown user are never parsed
          /\ userId \notin DOMAIN users =>
                (volume = <<"1", "0">> /\ price = <<"5", "0", "0", "0">>)
          /\ LET check == tradeWebhookCheck(users, userId, volume, price)
             IN  IF check # "OK"
                 THEN /\ response' = [NoResponse EXCEPT !.op = "trade", !.status = check]
                      /\ UNCHANGED inflight
                 ELSE /\ inflight' = inflight (+) SetToBag({
                                        [userId |-> userId, user |-> users[userId],
                                         tradeVolume |-> fromString(volume).value,
                                         tradePrice |-> fromString(price).value]})
                      /\ UNCHANGED response
    /\ UNCHANGED <<users, trades, commissions, claims>>

\* the transaction of processTradeWebhook (lines 411-497)
TradeWebhookCommit ==
    \E req \in BagToSet(inflight) :
        LET r == tradeTransaction(users, trades, commissions, req, "none")
        IN  /\ trades' = r.trades
            /\ commissions' = r.commissions
            /\ users' = r.users
            /\ inflight' = inflight (-) SetToBag({req})
            /\ UNCHANGED claims
            /\ response' = r.response

Next ==
    \/ RegisterWithReferral /\ UNCHANGED <<feeVars, distVars, valVars, optVars, earnVars, apiVars, qryVars>>
    \/ TradeWebhookReceive /\ UNCHANGED <<feeVars, distVars, valVars, optVars, earnVars, apiVars, qryVars>>
    \/ TradeWebhookCommit /\ UNCHANGED <<feeVars, distVars, valVars, optVars, earnVars, apiVars, qryVars>>

Spec == Init /\ [][Next]_vars

\* registrations alone: the referral forest they can build
NextRegister ==
    Register(MaxAccounts) /\ UNCHANGED <<feeVars, distVars, valVars, optVars, earnVars, apiVars, qryVars>>

SpecRegister == Init /\ [][NextRegister]_vars

----------------------------------------------------------------------------
(* Trade webhooks one after the other, with failing database statements    *)

\* a referral chain of four accounts (examples/api-examples.sh: kol1, user1,
\* user2, user3); the first one with or without the KOL_50 structure
WebhookUserTables ==
    { << [NewUser(1, NoUser, 0) EXCEPT !.customCommissionStructure = c],
         NewUser(2, 1, defaultFeeDiscount), NewUser(3, 2, defaultFeeDiscount),
         NewUser(4, 3, defaultFeeDiscount) >> :
        c \in {NoStructure, Structure(500, 30, 20)} }

\* volumes and prices of the webhook requests, as decimal texts
WebhookVolumes == VolumeTexts \cup { <<"2", "0">> }

WebhookPrices == PriceTexts \cup { <<"1", "0", "0">> }

InitWebhook ==
    /\ users \in WebhookUserTables
    /\ trades = <<>>
    /\ commissions = <<>>
    /\ claims = <<>>
    /\ inflight = EmptyBag
    /\ response = NoResponse
    /\ FeeIdle
    /\ DistIdle
    /\ ValIdle
    /\ OptIdle
    /\ EarnIdle
    /\ ApiIdle
    /\ QryIdle

\* one call of ReferralService.processTradeWebhook
ProcessTradeWebhookWith(userIds, volumes, prices, failAts) ==
    /\ Len(trades) < MaxTrades
    /\ \E userId \in userIds, volume \in volumes, price \in prices, failAt \in failAts :
          LET r == processTradeWebhook(users, trades, commissions, userId, volume, price,
                                       failAt)
          IN  /\ users' = r.users
              /\ trades' = r.trades
              /\ commissions' = r.commissions
              /\ response' = r.response
    /\ UNCHANGED <<claims, inflight>>

ProcessTradeWebhook ==
    ProcessTradeWebhookWith(1..(Len(users) + 1), WebhookVolumes, WebhookPrices,
                            {"none", "trade.create", "commission.create", "user.update"})

NextWebhook ==
    ProcessTradeWebhook /\ UNCHANGED <<feeVars, distVars, valVars, optVars, earnVars, apiVars, qryVars>>

SpecWebhook == InitWebhook /\ [][NextWebhook]_vars

----------------------------------------------------------------------------
(* The life of a commission: trades create it, claims take it              *)

\* trades of the account at the end of the referral chain
LifecycleTrade ==
    ProcessTradeWebhookWith({4}, { <<"1", "0">> }, { <<"5", "0", "0", "0">> }, {"none"})

\* createClaim up to tx.claim.create: the transaction is open and holds
\* its new claim row
ClaimBegin ==
    /\ Len(claims) + BagCardinality(inflight) < MaxClaims
    /\ \E userId \in {2, 3}, tokenType \in {"USDC", "SOL"} :
          inflight' = inflight (+) SetToBag({
                         [id |-> Len(claims) + BagCardinality(inflight) + 1,
                          userId |-> userId, tokenType |-> tokenType, status |-> "PENDING"]})
    /\ UNCHANGED <<users, trades, commissions, claims, response>>

\* tx.commission.updateMany and the commit of an open createClaim; the
\* statement waits for the row locks of every other open transaction, so it
\* reads the rows as the transactions before it left them
ClaimCommit ==
    \E claim \in BagToSet(inflight) :
        /\ inflight' = inflight (-) SetToBag({claim})
        /\ claims' = Append(claims, claim)
        /\ commissions' = commissionUpdateMany(commissions, claim, claim.id)
        /\ response' = [NoResponse EXCEPT !.op = "createClaim", !.status = "CREATED",
                                          !.tradeId = claim.id]
        /\ UNCHANGED <<users, trades>>

\* DatabaseService.updateClaimStatus for a pending claim
UpdateClaimStatus ==
    /\ \E k \in DOMAIN claims, status \in {"COMPLETED", "FAILED"} :
          /\ claims[k].status = "PENDING"
          /\ claims' = updateClaimStatus(claims, claims[k].id, status)
    /\ UNCHANGED <<users, trades, commissions, inflight, response>>

NextLifecycle ==
    \/ LifecycleTrade /\ UNCHANGED <<feeVars, distVars, valVars, optVars, earnVars, apiVars, qryVars>>
    \/ ClaimBegin /\ UNCHANGED <<feeVars, distVars, valVars, optVars, earnVars, apiVars, qryVars>>
    \/ ClaimCommit /\ UNCHANGED <<feeVars, distVars, valVars, optVars, earnVars, apiVars, qryVars>>
    \/ UpdateClaimStatus /\ UNCHANGED <<feeVars, distVars, valVars, optVars, earnVars, apiVars, qryVars>>

SpecLifecycle == InitWebhook /\ [][NextLifecycle]_vars

----------------------------------------------------------------------------
(* Queries over a table of commissions                                     *)

\* bound: rows of the queried table
MaxRows == 3

\* commission rows of two earners, one row per day
QueryTables ==
    UNION { [1..n -> [earnerId : {1, 2}, status : {"UNCLAIMED", "CLAIMED"}]] : n \in 0..MaxRows }

QueryTable(t) ==
    [k \in DOMAIN t |->
        [id |-> k, amount |-> 1000000, tokenType |-> "USDC", commissionLevel |-> 1,
         earnerId |-> t[k].earnerId, status |-> t[k].status, createdAt |-> k]]

QueryDates == {NoDate} \cup 1..MaxRows

\* helpers.ts lines 270-276, ValidationUtils.isValidDateRange
isValidDateRange(startDate, endDate) ==
    (startDate # NoDate /\ endDate # NoDate) => startDate <= endDate

InitQuery ==
    /\ qryPc = "idle"
    /\ qryCommissions \in { QueryTable(t) : t \in QueryTables }
    /\ qryUserId \in {1, 2}
    /\ qryStartDate \in QueryDates
    /\ qryEndDate \in QueryDates
    /\ isValidDateRange(qryStartDate, qryEndDate)
    /\ qryResult = <<>>
    /\ FeeIdle
    /\ DistIdle
    /\ SysIdle
    /\ ValIdle
    /\ OptIdle
    /\ EarnIdle
    /\ ApiIdle

\* one call of DatabaseService.getUserCommissions
GetUserCommissions ==
    /\ qryPc = "idle"
    /\ \E status \in {"", "UNCLAIMED"}, offset \in {0, 1}, limit \in {1, 20} :
          qryResult' = getUserCommissions(qryCommissions, qryUserId,
                                          [startDate |-> qryStartDate, endDate |-> qryEndDate,
                                           status |-> status],
                                          [offset |-> offset, limit |-> limit])
    /\ qryPc' = "done"
    /\ UNCHANGED <<qryCommissions, qryUserId, qryStartDate, qryEndDate>>

NextQuery ==
    GetUserCommissions /\ UNCHANGED <<feeVars, distVars, sysVars, valVars, optVars, earnVars, apiVars>>

SpecQuery == InitQuery /\ [][NextQuery]_vars

----------------------------------------------------------------------------
(* Claims over a table of commissions                                      *)

\* commission rows of two earners in two tokens, open or being paid out
CommissionTables ==
    UNION { [1..n -> [earnerId : {1, 2}, tokenType : {"USDC", "SOL"},
                      status : {"UNCLAIMED", "PROCESSING"}]] : n \in 0..MaxCommissions }

CommissionTable(t) ==
    [k \in DOMAIN t |->
        [id |-> k, amount |-> 1000000, tokenType |-> t[k].tokenType, commissionLevel |-> 1,
         rate |-> level1, earnerId |-> t[k].earnerId, sourceUserId |-> 3, tradeId |-> k,
         originalFeeAmount |-> 10000, status |-> t[k].status, claimId |-> NoUser]]

InitClaim ==
    /\ users = <<>>
    /\ trades = <<>>
    /\ commissions \in { CommissionTable(t) : t \in CommissionTables }
    /\ claims = <<>>
    /\ inflight = EmptyBag
    /\ response = NoResponse
    /\ FeeIdle
    /\ DistIdle
    /\ ValIdle
    /\ OptIdle
    /\ EarnIdle
    /\ ApiIdle
    /\ QryIdle

\* one call of DatabaseService.createClaim
CreateClaim ==
    /\ Len(claims) < MaxClaims
    /\ \E userId \in {1, 2}, tokenType \in {"USDC", "SOL"},
          failAt \in {"none", "create", "updateMany"} :
          LET r == createClaim(commissions, claims,
                               [userId |-> userId, tokenType |-> tokenType,
                                status |-> "PENDING"], failAt)
          IN  /\ claims' = r.claims
              /\ commissions' = r.commissions
              /\ response' = [NoResponse EXCEPT
                                !.op = "createClaim",
                                !.status = IF failAt = "none" THEN "CREATED" ELSE "FAILED"]
    /\ UNCHANGED <<users, trades, inflight>>

NextClaim == CreateClaim /\ UNCHANGED <<feeVars, distVars, valVars, optVars, earnVars, apiVars, qryVars>>

SpecClaim == InitClaim /\ [][NextClaim]_vars

----------------------------------------------------------------------------
(* The HTTP routes POST /generate and POST /claim                          *)

\* two registered users; the second one may still be without a referral
\* code (createUser and the updateUser that stores the code are two writes)
UserTables ==
    { <<NewUser(1, NoUser, 0), [NewUser(2, 1, defaultFeeDiscount) EXCEPT !.referralCode = c]>> :
        c \in {2, NoCode} }

\* bearer tokens: none, expired, malformed, or valid for a user id
Tokens ==
    {[kind |-> k, userId |-> NoUser] : k \in {"none", "expired", "invalid"}}
        \cup {[kind |-> "valid", userId |-> u] : u \in {1, 2}}

\* codes ReferralCodeGenerator.generate() returns in one call of the service:
\* codes already taken up to position n - 1, a free one from position n on
GeneratedRuns(us) ==
    { [k \in 1..maxAttempts |-> IF k < n THEN us[1].referralCode ELSE 11] : n \in {1, 2, maxAttempts + 1} }

InitApi ==
    /\ users \in UserTables
    /\ trades = <<>>
    /\ commissions = <<>>
    /\ claims = <<>>
    /\ inflight = EmptyBag
    /\ response = NoResponse
    /\ userRateLimits = <<>>
    /\ now = 0
    /\ admitted = <<>>
    /\ apiResponse = NoApiResponse
    /\ FeeIdle
    /\ DistIdle
    /\ ValIdle
    /\ OptIdle
    /\ EarnIdle
    /\ QryIdle

\* requests the limiter of a route has let through for a user
admittedTo(adm, userId, route) ==
    IF <<userId, route>> \in DOMAIN adm THEN adm[<<userId, route>>] ELSE 0

totalAdmitted(adm) ==
    admittedTo(adm, 1, "generate") + admittedTo(adm, 2, "generate")
        + admittedTo(adm, 1, "claim") + admittedTo(adm, 2, "claim")

countAdmitted(adm, userId, route) ==
    [k \in DOMAIN adm \cup {<<userId, route>>} |->
        IF k = <<userId, route>> THEN admittedTo(adm, userId, route) + 1 ELSE adm[k]]

rejected(route, status, error, authUser) ==
    [NoApiResponse EXCEPT !.route = route, !.status = status, !.error = error,
                          !.authUser = authUser]

\* controller lines 747-798, getStatusCodeForError
getStatusCodeForError(code) ==
    CASE code = "USER_NOT_FOUND" -> 404
      [] code = "REFERRAL_CODE_GENERATION_FAILED" -> 500
      [] OTHER -> 500

\* POST /generate: authenticateToken, validateContentType, extractUserId,
\* rateLimitByUser(5, 60 s), referralController.generateReferralCode
PostGenerateWith(tokens, contentTypes, bodyUserIds) ==
    \E token \in tokens, jsonBody \in contentTypes, bodyUserId \in bodyUserIds,
       generated \in GeneratedRuns(users) :
        LET auth == authenticateToken(token)
            userId == extractUserId(bodyUserId, token.userId)
            limit == rateLimitByUser(userRateLimits, limiterKey(token.userId, "generate"),
                                     now, generateMaxRequests, minuteWindow)
            r == generateReferralCode(users, userId, generated)
        IN  /\ UNCHANGED now
            /\ IF auth # "NONE"
               THEN /\ apiResponse' = rejected("generate", 401, auth, NoUser)
                    /\ UNCHANGED <<users, userRateLimits, admitted>>
               ELSE IF ~jsonBody
               THEN /\ apiResponse' = rejected("generate", 415, "UNSUPPORTED_MEDIA_TYPE",
                                               token.userId)
                    /\ UNCHANGED <<users, userRateLimits, admitted>>
               ELSE IF ~limit.admit
               THEN /\ apiResponse' = rejected("generate", 429, "RATE_LIMIT_EXCEEDED",
                                               token.userId)
                    /\ userRateLimits' = limit.limits
                    /\ UNCHANGED <<users, admitted>>
               ELSE /\ totalAdmitted(admitted) < MaxRequests
                    /\ userRateLimits' = limit.limits
                    /\ admitted' = countAdmitted(admitted, token.userId, "generate")
                    /\ IF userId = MalformedId
                       THEN /\ apiResponse' = rejected("generate", 400, "VALIDATION_ERROR",
                                                       token.userId)
                            /\ UNCHANGED users
                       ELSE /\ users' = r.users
                            /\ apiResponse' =
                                  [route |-> "generate",
                                   status |-> IF r.status = "OK" THEN 200
                                              ELSE getStatusCodeForError(r.status),
                                   error |-> IF r.status = "OK" THEN "NONE" ELSE r.status,
                                   authUser |-> token.userId, servedUser |-> userId,
                                   referralCode |-> r.referralCode,
                                   referralUrl |-> r.referralUrl]

\* referralService.ts lines 503-543, validateClaimRequest
validateClaimRequest(us, cs, userId, tokenType) ==
    LET open == {k \in DOMAIN cs : /\ cs[k].earnerId = userId
                                    /\ cs[k].status = "UNCLAIMED"
                                    /\ cs[k].tokenType = tokenType}
        claimable[S \in SUBSET open] ==
            IF S = {} THEN 0
            ELSE LET k == CHOOSE j \in S : TRUE IN cs[k].amount + claimable[S \ {k}]
    IN  userId \in DOMAIN us /\ ~(claimable[open] < minimumClaimAmount)

\* POST /claim: authenticateToken, validateContentType, sanitizeInput,
\* validate(claimRequest), rateLimitByUser(10, 60 s),
\* referralController.validateClaimRequest
PostClaimWith(tokens, contentTypes, bodyUserIds) ==
    \E token \in tokens, jsonBody \in contentTypes, bodyUserId \in bodyUserIds :
        LET auth == authenticateToken(token)
            limit == rateLimitByUser(userRateLimits, limiterKey(token.userId, "claim"),
                                     now, claimMaxRequests, minuteWindow)
        IN  /\ UNCHANGED <<users, now>>
            /\ IF auth # "NONE"
               THEN /\ apiResponse' = rejected("claim", 401, auth, NoUser)
                    /\ UNCHANGED <<userRateLimits, admitted>>
               ELSE IF ~jsonBody
               THEN /\ apiResponse' = rejected("claim", 415, "UNSUPPORTED_MEDIA_TYPE",
                                               token.userId)
                    /\ UNCHANGED <<userRateLimits, admitted>>
               ELSE IF bodyUserId = MalformedId
               THEN /\ apiResponse' = rejected("claim", 400, "VALIDATION_ERROR",
                                               token.userId)
                    /\ UNCHANGED <<userRateLimits, admitted>>
               ELSE IF ~limit.admit
               THEN /\ apiResponse' = rejected("claim", 429, "RATE_LIMIT_EXCEEDED",
                                               token.userId)
                    /\ userRateLimits' = limit.limits
                    /\ UNCHANGED admitted
               ELSE /\ totalAdmitted(admitted) < MaxRequests
                    /\ userRateLimits' = limit.limits
                    /\ admitted' = countAdmitted(admitted, token.userId, "claim")
                    /\ apiResponse' =
                          IF validateClaimRequest(users, commissions, bodyUserId, "USDC")
                          THEN [rejected("claim", 200, "NONE", token.userId)
                                   EXCEPT !.servedUser = bodyUserId]
                          ELSE [rejected("claim", 400, "INVALID_CLAIM_REQUEST", token.userId)
                                   EXCEPT !.servedUser = bodyUserId]

\* Date.now() advances by 30 s
Tick ==
    /\ now < MaxTime
    /\ now' = now + 1
    /\ UNCHANGED <<users, userRateLimits, admitted, apiResponse>>

\* what no HTTP request of these routes and no clock step writes
ApiFrame ==
    /\ UNCHANGED <<trades, commissions, claims, inflight, response>>
    /\ UNCHANGED <<feeVars, distVars, valVars, optVars, earnVars, qryVars>>

\* requests of every kind to POST /generate, within 30 s
PostGenerate == PostGenerateWith(Tokens, BOOLEAN, {NoUser, 1, 2, 3, MalformedId})

NextGenerate == PostGenerate /\ ApiFrame

SpecGenerate == InitApi /\ [][NextGenerate]_vars

\* well-formed requests of the two users for themselves, over time
PostOwnGenerate == PostGenerateWith({t \in Tokens : t.kind = "valid"}, {TRUE}, {NoUser})

PostOwnClaim == PostClaimWith({t \in Tokens : t.kind \in {"valid", "none"}}, {TRUE}, {1, 2})

NextApi ==
    \/ PostOwnGenerate /\ ApiFrame
    \/ PostOwnClaim /\ ApiFrame
    \/ Tick /\ ApiFrame

SpecApi == InitApi /\ [][NextApi]_vars

----------------------------------------------------------------------------
(* Properties of the fee-rate resolver                                     *)

\* C1: a team member or fee-waived account gets an all-zero result with
\* tierUsed WAIVED and discountApplied false, whatever its custom rate,
\* discount, volume, the trade value and the tier catalog are.
C1_WaivedAllZero ==
    (feePc = "done" /\ (feeUser.isTeamMember \/ feeUser.isWaivedFees)) =>
        /\ feeResult.originalFeeRate = 0
        /\ feeResult.appliedFeeRate = 0
        /\ feeResult.feeAmount = 0
        /\ feeResult.netFeeAmount = 0
        /\ feeResult.rebateAmount = 0
        /\ feeResult.discountApplied = FALSE
        /\ feeResult.tierUsed = "WAIVED"

C1_Witness ==
    /\ feePc = "done"
    /\ feeUser.isWaivedFees /\ ~feeUser.isTeamMember
    /\ feeUser.customFeeRate = 5 /\ feeUser.feeDiscountRate > 0
    /\ feeTradeValue = 1000 /\ Len(feeTiers) = MaxTiers
    /\ feeResult.tierUsed = "WAIVED"

\* C2: a non-waived account with customFeeRate set is charged exactly the
\* custom rate: applied = original = customFeeRate, feeAmount = netFeeAmount
\* = tradeValue x customFeeRate, no rebate, tierUsed CUSTOM, no discount,
\* independently of feeDiscountRate, totalTradeVolume and the tiers.
C2_CustomRateBypasses ==
    (feePc = "done" /\ ~feeUser.isTeamMember /\ ~feeUser.isWaivedFees
        /\ feeUser.customFeeRate # NoRate) =>
        /\ feeResult.originalFeeRate = feeUser.customFeeRate
        /\ feeResult.appliedFeeRate = feeUser.customFeeRate
        /\ feeResult.feeAmount = feeTradeValue * feeUser.customFeeRate
        /\ feeResult.netFeeAmount = feeTradeValue * feeUser.customFeeRate
        /\ feeResult.rebateAmount = 0
        /\ feeResult.tierUsed = "CUSTOM"
        /\ feeResult.discountApplied = FALSE

C2_Witness ==
    /\ feePc = "done"
    /\ ~feeUser.isTeamMember /\ ~feeUser.isWaivedFees
    /\ feeUser.customFeeRate = 5 /\ feeUser.feeDiscountRate = 1
    /\ feeUser.totalTradeVolume = 15000
    /\ feeTradeValue = 1000
    /\ \E i \in DOMAIN feeTiers : feeTiers[i].name = "TIER1"
    /\ feeResult.netFeeAmount = 5000

\* C3: for a non-waived account without custom rate, the tier is used (its
\* rate and name, discountApplied false) when the best tier -- the first
\* active tier in descending priority, ties in catalog order, whose
\* minimumVolume the account's volume reaches -- exists and is strictly
\* cheaper than baseFeeRate x (1 - feeDiscountRate); otherwise the
\* discounted base rate is used with tierUsed BASE and discountApplied =
\* (feeDiscountRate > 0).
C3_TierVersusDiscountedBase ==
    (feePc = "done" /\ ~feeUser.isTeamMember /\ ~feeUser.isWaivedFees
        /\ feeUser.customFeeRate = NoRate) =>
        LET qualifies(i) == feeTiers[i].isActive
                            /\ feeTiers[i].minimumVolume <= feeUser.totalTradeVolume
            best == { i \in DOMAIN feeTiers :
                        /\ qualifies(i)
                        /\ \A j \in DOMAIN feeTiers : (qualifies(j) /\ j # i) =>
                              \/ feeTiers[j].priority < feeTiers[i].priority
                              \/ (feeTiers[j].priority = feeTiers[i].priority /\ j > i) }
            discounted == CHOOSE r \in 0..baseFeeRate :
                              r * DiscountOne = baseFeeRate * (DiscountOne - feeUser.feeDiscountRate)
        IN  IF \E i \in best : feeTiers[i].feeRate < discounted
            THEN \A i \in best :
                    /\ feeResult.appliedFeeRate = feeTiers[i].feeRate
                    /\ feeResult.tierUsed = feeTiers[i].name
                    /\ feeResult.discountApplied = FALSE
            ELSE /\ feeResult.appliedFeeRate = discounted
                 /\ feeResult.tierUsed = "BASE"
                 /\ feeResult.discountApplied = (feeUser.feeDiscountRate > 0)

\* the tier-beats-discount scenario: 10% discount, volume 15000, TIER1
C3_Witness ==
    /\ feePc = "done"
    /\ ~feeUser.isTeamMember /\ ~feeUser.isWaivedFees
    /\ feeUser.customFeeRate = NoRate
    /\ feeUser.feeDiscountRate = 1 /\ feeUser.totalTradeVolume = 15000
    /\ Len(feeTiers) = 2 /\ feeTiers[1].name = "BASE" /\ feeTiers[2].name = "TIER1"
    /\ feeResult.tierUsed = "TIER1" /\ feeResult.appliedFeeRate = 8

\* C4: for a non-waived, non-custom account the applied rate lies between 0
\* and the original rate, and the rebate is feeAmount - netFeeAmount and is
\* never negative.
C4_RateAndRebateBounds ==
    (feePc = "done" /\ ~feeUser.isTeamMember /\ ~feeUser.isWaivedFees
        /\ feeUser.customFeeRate = NoRate) =>
        /\ 0 <= feeResult.appliedFeeRate
        /\ feeResult.appliedFeeRate <= feeResult.originalFeeRate
        /\ feeResult.rebateAmount = feeResult.feeAmount - feeResult.netFeeAmount
        /\ feeResult.rebateAmount >= 0

\* the best tier is priced above the base rate and a discount applies
C4_Witness ==
    /\ feePc = "done"
    /\ ~feeUser.isTeamMember /\ ~feeUser.isWaivedFees
    /\ feeUser.customFeeRate = NoRate /\ feeUser.feeDiscountRate = 2
    /\ feeTradeValue = 1000
    /\ \E i \in DOMAIN feeTiers : feeTiers[i].name = "LEGACY"
    /\ feeResult.rebateAmount = 2000

\* C5: in the tier branch and in the discounted-base branch the gross fee
\* is charged at the base rate: originalFeeRate = baseFeeRate, feeAmount =
\* tradeValue x baseFeeRate, netFeeAmount = tradeValue x appliedFeeRate and
\* rebateAmount is their difference; trade value 1000 with a 10% discount
\* and no better tier gives feeAmount 10, netFeeAmount 9, rebateAmount 1.
C5_GrossFeeAtBaseRate ==
    (feePc = "done" /\ ~feeUser.isTeamMember /\ ~feeUser.isWaivedFees
        /\ feeUser.customFeeRate = NoRate) =>
        /\ feeResult.originalFeeRate = 10
        /\ feeResult.feeAmount = feeTradeValue * 10
        /\ feeResult.netFeeAmount = feeTradeValue * feeResult.appliedFeeRate
        /\ feeResult.rebateAmount = feeResult.feeAmount - feeResult.netFeeAmount
        /\ (feeTradeValue = 1000 /\ feeUser.feeDiscountRate = 1
              /\ feeResult.tierUsed = "BASE") =>
                /\ feeResult.feeAmount = 10000
                /\ feeResult.netFeeAmount = 9000
                /\ feeResult.rebateAmount = 1000

C5_Witness ==
    /\ feePc = "done"
    /\ ~feeUser.isTeamMember /\ ~feeUser.isWaivedFees
    /\ feeUser.customFeeRate = NoRate /\ feeUser.feeDiscountRate = 1
    /\ feeTradeValue = 1000
    /\ feeResult.tierUsed = "BASE"
    /\ feeResult.feeAmount = 10000 /\ feeResult.netFeeAmount = 9000
    /\ feeResult.rebateAmount = 1000

----------------------------------------------------------------------------
(* Properties of the commission distributor                                *)

\* C7: whatever the net fee and the chain (of any length), the distributor
\* returns at most min(len(chain), 3) distributions, every level is 1, 2 or
\* 3, and the levels appear in non-decreasing order.
C7_BoundedOrderedLevels ==
    distPc = "done" =>
        /\ Len(distResult) <= (IF Len(distChain) < 3 THEN Len(distChain) ELSE 3)
        /\ \A i \in DOMAIN distResult : distResult[i].level \in {1, 2, 3}
        /\ \A i, j \in DOMAIN distResult :
              i < j => distResult[i].level <= distResult[j].level

\* a chain longer than the depth cap, all three levels paid
C7_Witness ==
    /\ distPc = "done"
    /\ Len(distChain) = 4
    /\ Len(distResult) = 3
    /\ distResult[1].level = 1 /\ distResult[3].level = 3

\* C8: levels are positional: a distribution of level L is earned by
\* referralChain[L-1] (1-based here: distChain[L]); a team member is never
\* an earner and skipping one does not renumber later entries: chain
\* [teamMember, plain] with net fee 450 yields exactly one distribution,
\* level 2, amount 13.5, earner plain.
C8_LevelsArePositional ==
    distPc = "done" =>
        /\ \A i \in DOMAIN distResult :
              /\ distResult[i].level \in DOMAIN distChain
              /\ distResult[i].earnerId = distChain[distResult[i].level].id
              /\ \A k \in DOMAIN distChain :
                    distChain[k].isTeamMember => distResult[i].earnerId # distChain[k].id
        /\ (distNetFee = 450000 /\ Len(distChain) = 2
              /\ distChain[1].id = "team" /\ distChain[2].id = "level2") =>
                /\ Len(distResult) = 1
                /\ distResult[1].level = 2
                /\ distResult[1].amount = 13500000
                /\ distResult[1].earnerId = "level2"

C8_Witness ==
    /\ distPc = "done"
    /\ distNetFee = 450000 /\ Len(distChain) = 2
    /\ distChain[1].id = "team" /\ distChain[2].id = "level2"
    /\ Len(distResult) = 1 /\ distResult[1].level = 2

\* C9: the rate of a distribution at level N is the earner's own
\* customCommissionStructure.level{N}Rate when the earner has a structure
\* with that rate set, and the standard rate of level N (0.30, 0.03, 0.02)
\* otherwise -- no other referrer's structure matters -- and amount =
\* netFeeAmount x rate.
C9_RatePerLevel ==
    distPc = "done" =>
        \A i \in DOMAIN distResult :
            LET N == distResult[i].level
                standard == <<300, 30, 20>>
                structure == distChain[N].customCommissionStructure
                own == IF structure = <<>> THEN -1
                       ELSE <<structure[1].level1Rate, structure[1].level2Rate,
                              structure[1].level3Rate>>[N]
            IN  /\ distResult[i].rate = (IF own # -1 THEN own ELSE standard[N])
                /\ distResult[i].amount = distNetFee * distResult[i].rate

\* the KOL override scenario: level 1 has only level1Rate = 0.50, level 2 is
\* a KOL paid its own level2Rate, level 3 is plain
C9_Witness ==
    /\ distPc = "done"
    /\ distNetFee = 450000 /\ Len(distChain) = 3
    /\ distChain[1].id = "kol1" /\ distChain[2].id = "kol" /\ distChain[3].id = "level3"
    /\ Len(distResult) = 3
    /\ distResult[1].rate = 500 /\ distResult[1].amount = 225000000
    /\ distResult[2].rate = 50 /\ distResult[3].rate = 20

\* C10: position L of the chain gets a distribution exactly when the net
\* fee is positive, L <= min(len(chain), 3), chain[L-1] is no team member
\* and netFeeAmount x rate(L) >= 0.01; a non-positive net fee gives the
\* empty list, and an amount dropped below the threshold is not added to
\* any other level and does not change which other levels are emitted.
C10_EmittedExactlyWhenEligible ==
    distPc = "done" =>
        LET standard == <<300, 30, 20>>
            rate(L) ==
                LET structure == distChain[L].customCommissionStructure
                    own == IF structure = <<>> THEN -1
                           ELSE <<structure[1].level1Rate, structure[1].level2Rate,
                                  structure[1].level3Rate>>[L]
                IN  IF own # -1 THEN own ELSE standard[L]
            eligible(L) == /\ distNetFee > 0
                           /\ L <= 3
                           /\ ~distChain[L].isTeamMember
                           /\ distNetFee * rate(L) >= 10000
            emitted(L) == { i \in DOMAIN distResult : distResult[i].level = L }
        IN  /\ \A L \in DOMAIN distChain :
                  /\ Cardinality(emitted(L)) = (IF eligible(L) THEN 1 ELSE 0)
                  /\ \A i \in emitted(L) : distResult[i].amount = distNetFee * rate(L)
            /\ \A i \in DOMAIN distResult : distResult[i].level \in DOMAIN distChain
            /\ (distNetFee <= 0 => distResult = <<>>)

\* net fee 0.5 under a team member: level 1 is skipped, level 2 earns 0.015
\* and level 3 exactly the minimum 0.01
C10_Witness ==
    /\ distPc = "done"
    /\ distNetFee = 500 /\ Len(distChain) = 3
    /\ distChain[1].id = "team" /\ distChain[2].id = "level2" /\ distChain[3].id = "level3"
    /\ Len(distResult) = 2
    /\ distResult[1].level = 2 /\ distResult[1].amount = 15000
    /\ distResult[2].level = 3 /\ distResult[2].amount = 10000

----------------------------------------------------------------------------
(* Properties of the service                                               *)

\* C6: a trade whose trader has the ancestors a1 (referrer), a2 (a1's
\* referrer) and a3 (a2's referrer), none of them a team member, awards the
\* level-1 commission to a1, the level-2 commission to a2 and the level-3
\* commission to a3: the chain walked for the trader is [a1, a2, a3] with no
\* ancestor skipped.
C6_ChainIsNearestFirst ==
    \A t \in DOMAIN trades :
        LET a1 == users[trades[t].userId].referrerId
            a2 == IF a1 = NoUser THEN NoUser ELSE users[a1].referrerId
            a3 == IF a2 = NoUser THEN NoUser ELSE users[a2].referrerId
        IN  (/\ a1 # NoUser /\ a2 # NoUser /\ a3 # NoUser
             /\ ~users[a1].isTeamMember /\ ~users[a2].isTeamMember
             /\ ~users[a3].isTeamMember) =>
                \A L \in 1..3 :
                    \E k \in DOMAIN commissions :
                        /\ commissions[k].tradeId = trades[t].id
                        /\ commissions[k].commissionLevel = L
                        /\ commissions[k].earnerId = <<a1, a2, a3>>[L]

----------------------------------------------------------------------------
(* Properties of the referral-chain validator                              *)

\* C11: validateReferralChain returns false exactly when the candidate's id
\* is the id of a chain member, or two positions of the chain hold the same
\* id, or the chain is longer than 3; on every other input, the empty chain
\* included, it returns true.
C11_ValidExactlyWhenAcyclicAndShort ==
    valPc = "done" =>
        (valResult = FALSE <=>
            \/ \E i \in DOMAIN valChain : valChain[i].id = valUserId
            \/ \E i, j \in DOMAIN valChain : i # j /\ valChain[i].id = valChain[j].id
            \/ Len(valChain) > 3)

\* a chain of exactly three distinct members without the candidate is valid
C11_Witness ==
    /\ valPc = "done"
    /\ Len(valChain) = 3
    /\ \A i, j \in DOMAIN valChain : i # j => valChain[i].id # valChain[j].id
    /\ \A i \in DOMAIN valChain : valChain[i].id # valUserId
    /\ valResult = TRUE

----------------------------------------------------------------------------
(* Properties of the tier selector                                         *)

\* C12 as stated: for every catalog with an active tier and all volumes
\* v1 <= v2, the tier selected for v2 has a minimumVolume at least that of
\* the tier selected for v1.
C12_MonotonicInVolume ==
    (optPc = "done" /\ ActiveTiers(optTiers) # <<>>) =>
        \A v1 \in UserVolumes :
            v1 <= optVolume =>
                calculateOptimalFeeTier(v1, optTiers).minimumVolume <= optResult.minimumVolume

\* C12 amended: the selection is monotonic from every volume v1 that reaches
\* the minimumVolume of some active tier (always so when the catalog has an
\* active zero-volume tier).
C12_MonotonicWhereSomeTierQualifies ==
    (optPc = "done" /\ ActiveTiers(optTiers) # <<>>) =>
        \A v1 \in UserVolumes :
            (/\ v1 <= optVolume
             /\ \E i \in DOMAIN optTiers :
                    optTiers[i].isActive /\ optTiers[i].minimumVolume <= v1) =>
                calculateOptimalFeeTier(v1, optTiers).minimumVolume <= optResult.minimumVolume

\* a larger volume moved the account to a tier with a larger minimum
C12_Witness ==
    /\ optPc = "done"
    /\ \E v1 \in UserVolumes :
          /\ v1 < optVolume
          /\ \E i \in DOMAIN optTiers :
                optTiers[i].isActive /\ optTiers[i].minimumVolume <= v1
          /\ calculateOptimalFeeTier(v1, optTiers).minimumVolume < optResult.minimumVolume

\* C13: the result is an active tier of the catalog whenever one exists: the
\* first in priority order (ties in catalog order) among the active tiers
\* the volume reaches; if the volume reaches none, the active tier named
\* BASE if there is one, else the first active tier in priority order.
C13_FirstQualifyingElseBaseElseTop ==
    (optPc = "done" /\ \E i \in DOMAIN optTiers : optTiers[i].isActive) =>
        LET active == {i \in DOMAIN optTiers : optTiers[i].isActive}
            reached == {i \in active : optTiers[i].minimumVolume <= optVolume}
            named == {i \in active : optTiers[i].name = "BASE"}
            before(i, j) == \/ optTiers[i].priority > optTiers[j].priority
                            \/ optTiers[i].priority = optTiers[j].priority /\ i <= j
            firstOf(S) == CHOOSE i \in S : \A j \in S : before(i, j)
        IN  /\ optResult.isActive
            /\ \E i \in active : optResult = optTiers[i]
            /\ optResult = IF reached # {} THEN optTiers[firstOf(reached)]
                           ELSE IF named # {} THEN optTiers[firstOf(named)]
                           ELSE optTiers[firstOf(active)]

\* no tier is reached and the BASE tier is returned although another active
\* tier has a higher priority
C13_Witness ==
    /\ optPc = "done"
    /\ \A i \in DOMAIN optTiers : optTiers[i].isActive => optTiers[i].minimumVolume > optVolume
    /\ optResult.name = "BASE"
    /\ \E i \in DOMAIN optTiers : optTiers[i].isActive /\ optTiers[i].priority > optResult.priority

----------------------------------------------------------------------------
(* Properties of the service                                               *)

\* C14: no counter update of a trader is lost, also when two trade webhooks
\* of the trader overlap: once no webhook of the trader is in progress, the
\* trader's totalTradeVolume is the sum of the values (volume x price) of
\* the trader's recorded trades and totalFeesPaid the sum of their
\* netFeeAmount (both counters start at 0).
C14_NoLostCounterUpdate ==
    \A u \in DOMAIN users :
        (\A req \in BagToSet(inflight) : req.userId # u) =>
            LET value[k \in 0..Len(trades)] ==
                    IF k = 0 THEN 0
                    ELSE value[k - 1] + (IF trades[k].userId = u
                                         THEN trades[k].volume * trades[k].price ELSE 0)
                fees[k \in 0..Len(trades)] ==
                    IF k = 0 THEN 0
                    ELSE fees[k - 1] + (IF trades[k].userId = u
                                        THEN trades[k].netFeeAmount ELSE 0)
            IN  /\ users[u].totalTradeVolume = value[Len(trades)]
                /\ users[u].totalFeesPaid = fees[Len(trades)]

\* C16: after any sequence of registrations no user has more than 3
\* upstream ancestors (referrer, referrer's referrer, ...).
C16_AtMostThreeAncestors ==
    LET ancestors[u \in DOMAIN users] ==
            IF users[u].referrerId = NoUser THEN 0
            ELSE 1 + ancestors[users[u].referrerId]
    IN  \A u \in DOMAIN users : ancestors[u] <= 3

\* C17: the 10-USDC minimum is applied to the trade's value: a response
\* MINIMUM_TRADE_VOLUME_NOT_MET answers a request of an existing user whose
\* value (volume x price) is below 10, so a request of volume 1 at price
\* 5000 is never answered with it.
C17_MinimumAppliesToTradeValue ==
    (response.op = "trade" /\ response.status = "MINIMUM_TRADE_VOLUME_NOT_MET") =>
        \E userId \in DOMAIN users, volume \in VolumeTexts, price \in PriceTexts :
            /\ tradeWebhookCheck(users, userId, volume, price) = "MINIMUM_TRADE_VOLUME_NOT_MET"
            /\ fromString(volume).value * fromString(price).value < 10

\* C15: createClaim is all-or-nothing and complete.  A call that commits
\* adds one claim row, and exactly the commissions of the claim's user and
\* token that were UNCLAIMED become CLAIMED with the new claim's id; every
\* other commission is unchanged.  A call that fails leaves the claims and
\* the commissions as they were.
C15_ClaimAllOrNothing ==
    [][ /\ (response'.op = "createClaim" /\ response'.status = "CREATED") =>
            /\ Len(claims') = Len(claims) + 1
            /\ SubSeq(claims', 1, Len(claims)) = claims
            /\ DOMAIN commissions' = DOMAIN commissions
            /\ LET claim == claims'[Len(claims')]
               IN  \A k \in DOMAIN commissions :
                       IF /\ commissions[k].earnerId = claim.userId
                          /\ commissions[k].tokenType = claim.tokenType
                          /\ commissions[k].status = "UNCLAIMED"
                       THEN commissions'[k] = [commissions[k] EXCEPT !.status = "CLAIMED",
                                                                     !.claimId = claim.id]
                       ELSE commissions'[k] = commissions[k]
        /\ (response'.op = "createClaim" /\ response'.status = "FAILED") =>
            /\ claims' = claims
            /\ commissions' = commissions ]_vars

\* a claim was committed that took one commission and left another of the
\* same table open, and a later call failed
C15_Witness ==
    /\ response.op = "createClaim" /\ response.status = "FAILED"
    /\ claims # <<>>
    /\ \E k, j \in DOMAIN commissions :
          /\ commissions[k].status = "CLAIMED"
          /\ commissions[k].claimId = claims[Len(claims)].id
          /\ commissions[j].status = "UNCLAIMED"

----------------------------------------------------------------------------
(* Properties of the earnings breakdown                                    *)

\* C18: unclaimedEarnings is totalEarnings minus claimedEarnings, and
\* claimedEarnings is the sum of the amounts of exactly the commissions (of
\* the date range) with status CLAIMED; so unclaimedEarnings is the sum
\* over the statuses UNCLAIMED, PROCESSING and FAILED.
C18_UnclaimedIsTotalMinusClaimed ==
    earnPc = "done" =>
        LET inRange(c) == /\ earnStartDate = NoDate \/ earnStartDate <= c.createdAt
                          /\ earnEndDate = NoDate \/ c.createdAt <= earnEndDate
            sumWhere(P(_)) ==
                LET acc[k \in 0..Len(earnCommissions)] ==
                        IF k = 0 THEN 0
                        ELSE acc[k - 1] + (IF inRange(earnCommissions[k]) /\ P(earnCommissions[k])
                                           THEN earnCommissions[k].amount ELSE 0)
                IN  acc[Len(earnCommissions)]
        IN  /\ earnResult.unclaimedEarnings =
                    earnResult.totalEarnings - earnResult.claimedEarnings
            /\ earnResult.claimedEarnings = sumWhere(LAMBDA c : c.status = "CLAIMED")
            /\ earnResult.unclaimedEarnings =
                    sumWhere(LAMBDA c : c.status \in {"UNCLAIMED", "PROCESSING", "FAILED"})

\* a claimed commission and one that is PROCESSING or FAILED were both
\* aggregated
C18_Witness ==
    /\ earnPc = "done"
    /\ earnStartDate = NoDate /\ earnEndDate = NoDate
    /\ \E k \in DOMAIN earnCommissions : earnCommissions[k].status = "CLAIMED"
    /\ \E k \in DOMAIN earnCommissions :
          /\ earnCommissions[k].status \in {"PROCESSING", "FAILED"}
          /\ earnResult.unclaimedEarnings = earnCommissions[k].amount

\* C19: exactly the commissions with startDate <= createdAt <= endDate
\* (a missing bound does not limit, both bounds are inclusive) contribute,
\* and every aggregate is taken over them: total, claimed, unclaimed, the
\* three levels, each token that occurs and each calendar day that occurs.
C19_InclusiveRangeFeedsEveryAggregate ==
    earnPc = "done" =>
        LET inRange(c) == /\ earnStartDate = NoDate \/ earnStartDate <= c.createdAt
                          /\ earnEndDate = NoDate \/ c.createdAt <= earnEndDate
            kept == {k \in DOMAIN earnCommissions : inRange(earnCommissions[k])}
            sumWhere(P(_)) ==
                LET acc[k \in 0..Len(earnCommissions)] ==
                        IF k = 0 THEN 0
                        ELSE acc[k - 1] + (IF k \in kept /\ P(earnCommissions[k])
                                           THEN earnCommissions[k].amount ELSE 0)
                IN  acc[Len(earnCommissions)]
            periods == earnResult.earningsByPeriod
        IN  /\ earnResult.totalEarnings = sumWhere(LAMBDA c : TRUE)
            /\ earnResult.claimedEarnings = sumWhere(LAMBDA c : c.status = "CLAIMED")
            /\ earnResult.unclaimedEarnings = sumWhere(LAMBDA c : c.status # "CLAIMED")
            /\ DOMAIN earnResult.earningsByLevel = 1..3
            /\ \A level \in 1..3 :
                  earnResult.earningsByLevel[level] =
                      sumWhere(LAMBDA c : c.commissionLevel = level)
            /\ DOMAIN earnResult.earningsByToken = {earnCommissions[k].tokenType : k \in kept}
            /\ \A token \in DOMAIN earnResult.earningsByToken :
                  earnResult.earningsByToken[token] = sumWhere(LAMBDA c : c.tokenType = token)
            /\ {periods[i].date : i \in DOMAIN periods} =
                  {earnCommissions[k].createdAt \div DayLength : k \in kept}
            /\ \A i, j \in DOMAIN periods : i < j => periods[i].date < periods[j].date
            /\ \A i \in DOMAIN periods :
                  periods[i].amount =
                      sumWhere(LAMBDA c : c.createdAt \div DayLength = periods[i].date)

\* a commission created exactly at startDate is counted while a commission
\* of the same calendar day created before startDate is not
C19_Witness ==
    /\ earnPc = "done"
    /\ earnStartDate # NoDate
    /\ \E k, j \in DOMAIN earnCommissions :
          /\ earnCommissions[k].createdAt = earnStartDate
          /\ earnCommissions[j].createdAt < earnStartDate
          /\ earnCommissions[j].createdAt \div DayLength = earnStartDate \div DayLength
          /\ earnResult.totalEarnings = earnCommissions[k].amount
          /\ Len(earnResult.earningsByPeriod) = 1

----------------------------------------------------------------------------
(* Properties of the calculations together                                 *)

----------------------------------------------------------------------------
(* Properties of the HTTP routes                                           *)

\* C21: POST /generate never runs generateReferralCode for a user other than
\* the authenticated one: whenever the service has run for a request, the
\* user it ran for is the user of the token.
C21_GenerateOnlyForAuthenticatedUser ==
    (apiResponse.route = "generate" /\ apiResponse.servedUser # NoUser) =>
        apiResponse.servedUser = apiResponse.authUser

\* C22: rate limits are per user and per endpoint: POST /generate answers
\* 429 to a user only when at least generateMaxRequests of that user's
\* requests to POST /generate were admitted, however many requests the user
\* sent to POST /claim.
C22_LimitPerUserAndEndpoint ==
    (apiResponse.route = "generate" /\ apiResponse.status = 429) =>
        admittedTo(admitted, apiResponse.authUser, "generate") >= generateMaxRequests

\* C23: generateReferralCode is idempotent for a user who has a code: a
\* successful POST /generate for such a user answers with the stored code
\* and its URL, and the users table is not written.
C23_GenerateIsIdempotent ==
    [][\A u \in DOMAIN users :
          (/\ users[u].referralCode # NoCode
           /\ apiResponse' # apiResponse
           /\ apiResponse'.route = "generate"
           /\ apiResponse'.servedUser = u)
          => /\ users' = users
             /\ apiResponse'.status = 200
             /\ apiResponse'.referralCode = users[u].referralCode
             /\ apiResponse'.referralUrl =
                    <<"https://app.nika.trade/signup?ref=", users[u].referralCode>>]_vars

C23_Witness ==
    /\ apiResponse.route = "generate"
    /\ apiResponse.status = 200
    /\ apiResponse.servedUser = 2
    /\ apiResponse.referralCode = 2
    /\ users[2].referralCode = 2

----------------------------------------------------------------------------
(* Properties of the trade webhook                                         *)

\* C24: processTradeWebhook is all-or-nothing.  A call that answers SUCCESS
\* has appended the trade row, one commission row per distribution of its
\* response, and has added the trade's value and net fee to the trader's
\* counters; every other call (unknown user, text that is no finite decimal,
\* volume below the minimum, failed transaction) has written nothing.
C24_WebhookAllOrNothing ==
    [][ response' # response =>
          IF response'.status = "SUCCESS"
          THEN LET trade == trades'[Len(trades')]
                   t == trade.userId
               IN  /\ trades' = Append(trades, trade)
                   /\ trade.id = response'.tradeId
                   /\ Len(commissions') =
                         Len(commissions) + Len(response'.commissionsDistributed)
                   /\ SubSeq(commissions', 1, Len(commissions)) = commissions
                   /\ \A k \in (Len(commissions) + 1)..Len(commissions') :
                         commissions'[k].tradeId = trade.id
                   /\ users'[t].totalTradeVolume =
                         users[t].totalTradeVolume + trade.volume * trade.price
                   /\ users'[t].totalFeesPaid = users[t].totalFeesPaid + trade.netFeeAmount
                   /\ \A u \in DOMAIN users : u # t => users'[u] = users[u]
          ELSE /\ trades' = trades
               /\ commissions' = commissions
               /\ users' = users ]_vars

C24_Witness ==
    /\ response.op = "trade"
    /\ response.status = "INTERNAL_ERROR"
    /\ Len(trades) = 1
    /\ Len(commissions) > 0
    /\ \A k \in DOMAIN commissions : commissions[k].tradeId = 1

\* C25: the calculator returns every distribution with the empty
\* commissionId, and in the response of a successful webhook every
\* distribution carries the id of a persisted commission row that has its
\* earnerId, level, amount and rate, the trader as sourceUserId, the new
\* trade as tradeId, the trade's gross fee as originalFeeAmount and status
\* UNCLAIMED; the new trade has exactly one row per distribution.
C25_IdsBackfilledFromPersistedRows ==
    (response.op = "trade" /\ response.status = "SUCCESS") =>
        LET dists == response.commissionsDistributed
            trade == trades[response.tradeId]
            calculated == calculateCommissionDistribution(
                              getReferralChain(users, trade.userId), trade.netFeeAmount)
            rowsOf(d) == {k \in DOMAIN commissions : commissions[k].id = d.commissionId}
        IN  /\ \A k \in DOMAIN calculated : calculated[k].commissionId = EmptyId
            /\ Len(calculated) = Len(dists)
            /\ \A k \in DOMAIN dists :
                  /\ dists[k].commissionId # EmptyId
                  /\ dists[k] = [calculated[k] EXCEPT !.commissionId = dists[k].commissionId]
                  /\ Cardinality(rowsOf(dists[k])) = 1
                  /\ \A r \in rowsOf(dists[k]) :
                        /\ commissions[r].earnerId = dists[k].earnerId
                        /\ commissions[r].commissionLevel = dists[k].level
                        /\ commissions[r].amount = dists[k].amount
                        /\ commissions[r].rate = dists[k].rate
                        /\ commissions[r].sourceUserId = trade.userId
                        /\ commissions[r].tradeId = trade.id
                        /\ commissions[r].originalFeeAmount = trade.feeAmount
                        /\ commissions[r].status = "UNCLAIMED"
            /\ \A j, k \in DOMAIN dists :
                  dists[j].commissionId = dists[k].commissionId => j = k
            /\ Cardinality({k \in DOMAIN commissions : commissions[k].tradeId = trade.id})
                  = Len(dists)

C25_Witness ==
    /\ response.op = "trade"
    /\ response.status = "SUCCESS"
    /\ response.tradeId = 2
    /\ Len(response.commissionsDistributed) >= 2
    /\ Len(commissions) > Len(response.commissionsDistributed)

----------------------------------------------------------------------------
(* Properties of the commission lifecycle                                  *)

\* C26: a commission row is created UNCLAIMED and without a claim; the only
\* change of an existing row is the one createClaim makes, from UNCLAIMED to
\* CLAIMED together with the claim's id; a CLAIMED row never changes again,
\* so no commission is ever attached to two claims, whether the createClaim
\* calls follow each other or overlap.
C26_CommissionLifecycle ==
    [][ /\ Len(commissions') >= Len(commissions)
        /\ \A k \in DOMAIN commissions' :
              IF k \notin DOMAIN commissions
              THEN commissions'[k].status = "UNCLAIMED" /\ commissions'[k].claimId = NoUser
              ELSE \/ commissions'[k] = commissions[k]
                   \/ /\ commissions[k].status = "UNCLAIMED"
                      /\ commissions[k].claimId = NoUser
                      /\ commissions'[k] =
                            [commissions[k] EXCEPT !.status = "CLAIMED",
                                                   !.claimId = commissions'[k].claimId]
                      /\ response'.op = "createClaim"
                      /\ commissions'[k].claimId = response'.tradeId
                      /\ \E c \in DOMAIN claims' :
                            /\ c \notin DOMAIN claims
                            /\ claims'[c].id = commissions'[k].claimId
                            /\ claims'[c].userId = commissions[k].earnerId
                            /\ claims'[c].tokenType = commissions[k].tokenType ]_vars

\* two overlapping createClaim calls of one user have both committed and the
\* user's commissions belong to the one that committed first
C26_Witness ==
    /\ Len(claims) = 2
    /\ claims[1].userId = claims[2].userId
    /\ claims[1].tokenType = claims[2].tokenType
    /\ claims[1].id = 2
    /\ \E k \in DOMAIN commissions :
          commissions[k].status = "CLAIMED" /\ commissions[k].claimId = 2
    /\ \E k \in DOMAIN commissions : commissions[k].status = "UNCLAIMED"

----------------------------------------------------------------------------
(* Properties of the commission query                                      *)

\* C27: getUserCommissions called with both startDate and endDate returns
\* and counts only commissions created inside the closed range: no returned
\* row was created before startDate or after endDate, and total does not
\* exceed the number of the user's rows inside the range.
C27_BothBoundsApplied ==
    (qryPc = "done" /\ qryStartDate # NoDate /\ qryEndDate # NoDate) =>
        /\ \A k \in DOMAIN qryResult.commissions :
              /\ qryStartDate <= qryResult.commissions[k].createdAt
              /\ qryResult.commissions[k].createdAt <= qryEndDate
        /\ qryResult.total <=
              Cardinality({k \in DOMAIN qryCommissions :
                             /\ qryCommissions[k].earnerId = qryUserId
                             /\ qryStartDate <= qryCommissions[k].createdAt
                             /\ qryCommissions[k].createdAt <= qryEndDate})

----------------------------------------------------------------------------
(* Properties of the configured commission structures                      *)

\* C28: for every positive net fee and every chain whose members have no
\* custom structure or one of KOL_50, KOL_CUSTOM_HIGH and
\* KOL_CUSTOM_BALANCED, the commissions of one trade add up to at most the
\* net fee, and to at most 35% of it when no member has a custom structure.
C28_TotalWithinNetFee ==
    (/\ distPc = "done"
     /\ distNetFee > 0
     /\ \A k \in DOMAIN distChain :
           distChain[k].customCommissionStructure \in
               {NoStructure, KOL_50, KOL_CUSTOM_HIGH, KOL_CUSTOM_BALANCED}) =>
        LET total[k \in 0..Len(distResult)] ==
                IF k = 0 THEN 0 ELSE total[k - 1] + distResult[k].amount
        IN  /\ total[Len(distResult)] <= distNetFee * 1000
            /\ (\A k \in DOMAIN distChain :
                    distChain[k].customCommissionStructure = NoStructure) =>
                  total[Len(distResult)] <= distNetFee * 350

\* the most the configured structures pay: 50% + 5% + 3% of 450 USDC
C28_Witness ==
    /\ distPc = "done"
    /\ distNetFee = 450000
    /\ Len(distResult) = 3
    /\ distResult[1].rate = 500 /\ distResult[2].rate = 50 /\ distResult[3].rate = 30

----------------------------------------------------------------------------
(* Properties of the groupings of the earnings breakdown                   *)

\* C29: the groupings conserve the total: the amounts of earningsByToken add
\* up to totalEarnings, so do the amounts of earningsByPeriod, and so do
\* earningsByLevel[1..3] when every commission in range has level 1, 2 or 3;
\* earningsByPeriod has one entry per distinct calendar day, ascending.
C29_GroupingsConserveTotal ==
    earnPc = "done" =>
        LET inRange(c) == /\ earnStartDate = NoDate \/ earnStartDate <= c.createdAt
                          /\ earnEndDate = NoDate \/ c.createdAt <= earnEndDate
            kept == {k \in DOMAIN earnCommissions : inRange(earnCommissions[k])}
            days == {earnCommissions[k].createdAt \div 2 : k \in kept}
            byToken == earnResult.earningsByToken
            tokenSum[S \in SUBSET DOMAIN byToken] ==
                IF S = {} THEN 0
                ELSE LET t == CHOOSE x \in S : TRUE IN byToken[t] + tokenSum[S \ {t}]
            periods == earnResult.earningsByPeriod
            periodSum[k \in 0..Len(periods)] ==
                IF k = 0 THEN 0 ELSE periodSum[k - 1] + periods[k].amount
            byLevel == earnResult.earningsByLevel
        IN  /\ tokenSum[DOMAIN byToken] = earnResult.totalEarnings
            /\ periodSum[Len(periods)] = earnResult.totalEarnings
            /\ Len(periods) = Cardinality(days)
            /\ {periods[k].date : k \in DOMAIN periods} = days
            /\ \A i, j \in DOMAIN periods : i < j => periods[i].date < periods[j].date
            /\ (\A k \in kept : earnCommissions[k].commissionLevel \in {1, 2, 3}) =>
                  byLevel[1] + byLevel[2] + byLevel[3] = earnResult.totalEarnings

\* two commissions of one day in different tokens and levels make one period
C29_Witness ==
    /\ earnPc = "done"
    /\ Len(earnCommissions) = 2
    /\ Len(earnResult.earningsByPeriod) = 1
    /\ Cardinality(DOMAIN earnResult.earningsByToken) = 2
    /\ earnResult.earningsByLevel[1] > 0
    /\ earnResult.earningsByLevel[2] > 0
    /\ earnResult.totalEarnings = earnResult.earningsByPeriod[1].amount

----------------------------------------------------------------------------
(* Properties of the distribution over a validated chain                   *)

\* C30: when validateReferralChain(trader, chain) is true, the distributions
\* calculated for that chain name no earner twice and never name the trader.
C30_ValidChainPaysDistinctOthers ==
    (valPc = "done" /\ valResult /\ distPc = "done") =>
        /\ \A i, j \in DOMAIN distResult :
              distResult[i].earnerId = distResult[j].earnerId => i = j
        /\ \A i \in DOMAIN distResult : distResult[i].earnerId # valUserId

\* a valid chain of three referrers, all of them paid
C30_Witness ==
    /\ valPc = "done"
    /\ valResult
    /\ distPc = "done"
    /\ Len(distChain) = 3
    /\ Len(distResult) = 3
    /\ valUserId \in {r.id : r \in Referrers}

====
